---- MODULE Spec2Model ----
(***************************************************************************)
(* A model of the tplinky package: the framing codec (Encode / Decode),    *)
(* Conn and its transport (Send, Close), the device operations built on    *)
(* Conn.Send (GetStatus, Enable, EnableSocket, EMonState, EMonReset) and   *)
(* the concurrent subnet scanner (Scan).                                   *)
(*                                                                         *)
(* Nine specifications share the module:                                   *)
(*   SpecCodec     the codec applied to bounded byte sequences;            *)
(*   SpecWire      Decode, Conn.Read and the end of Send applied to the    *)
(*                 buffers a transport can deliver;                        *)
(*   Spec          one caller issuing device operations on one Conn;       *)
(*   SpecOps       Spec with the remaining device operations;              *)
(*   SpecConn      one caller's Send and Close calls on one Conn, with the *)
(*                 reply bytes of the transport;                           *)
(*   SpecEMeter    one caller issuing energy meter operations;             *)
(*   SpecScan      Scan's main goroutine, its workers and its collector;   *)
(*   SpecScanFair  SpecScan under a fair scheduler;                        *)
(*   SpecScanLoop  Scan's loop alone, on every network of the width.       *)
(***************************************************************************)
EXTENDS Integers, Sequences, FiniteSets, TLC

VARIABLES
    \* ---- codec ----
    cpc,        \* "idle" | "input" | "encoded" | "decoded", and in SpecWire
                \* "wire" | "unpacked" | "read" | "accepted" | "rejected"
    cPlain,     \* the plaintext handed to Encode
    cWire,      \* Encode(cPlain).Bytes(); in SpecWire the bytes received
    cOut,       \* Decode(cWire).Bytes(); in SpecWire also p[:n] after Conn.Read
    \* ---- device operations ----
    dev,        \* the device: [relay |-> 0..1, children |-> Seq([id, state])]
    calls,      \* number of operations the caller has issued on the Conn
    last,       \* record of the operation that returned last
    prev,       \* summary of the operation before it
    \* ---- scan ----
    spc,        \* Scan's main goroutine: program counter
    network,    \* Scan's argument: [ip, bits]
    hostOf,     \* the network: what each probed address does
    sn,         \* loop variable n of Scan
    wpc,        \* per-address worker goroutine: program counter
    wsys,       \* per-address worker: the sys it got from GetStatus
    wopen,      \* per-address worker: its Conn is open
    wexch,      \* per-address worker: exchanges made on its Conn
    wg,         \* sync.WaitGroup wg: counter
    wg0,        \* sync.WaitGroup wg0: counter
    chClosed,   \* close(ch) has run
    kpc,        \* collector goroutine: program counter
    kr,         \* collector: the r it received
    result,     \* the result map
    \* ---- one Conn and its transport ----
    cn,         \* the caller's Conn: [ptr, target, conn]
    deadline,   \* a deadline is armed on the transport
    inbox,      \* reply bytes received by the socket and not yet read
    inflight,   \* reply bytes on their way that land after the call returned
    nsent,      \* number of commands the device has received
    ccalls,     \* number of calls the caller has made on the Conn
    ret,        \* what the last call on the Conn did and returned
    \* ---- energy meter ----
    em,         \* the device's energy meter
    ecalls,     \* number of meter operations the caller has issued
    eret        \* what the last meter operation returned

codecVars == <<cpc, cPlain, cWire, cOut>>
opVars    == <<dev, calls, last, prev>>
scanVars  == <<spc, network, hostOf, sn, wpc, wsys, wopen, wexch, wg, wg0, chClosed, kpc, kr, result>>
connVars  == <<cn, deadline, inbox, inflight, nsent, ccalls, ret>>
meterVars == <<em, ecalls, eret>>
vars      == <<codecVars, opVars, scanVars, connVars, meterVars>>

----------------------------------------------------------------------------
(* Bounds of the model *)

\* longest plaintext handed to the codec
MaxLen == 3

\* most sockets a modelled power strip has
MaxChildren == 2

\* longest index list handed to EnableSocket
MaxSockets == 2

\* most operations the caller issues on one Conn
MaxCalls == 2

\* width in bits of the modelled address arithmetic (uint32 in the code)
AddrBits == 3

\* most addresses a modelled Scan probes
MaxHosts == 2

\* largest integrated energy reading of a modelled meter
MaxWH == 2

----------------------------------------------------------------------------
(* Bytes *)

RECURSIVE XorBits(_, _, _)
\* a ^ b on the low `bits` bits, bit by bit
XorBits(a, b, bits) ==
    IF bits = 0 THEN 0
    ELSE (((a % 2) + (b % 2)) % 2) + 2 * XorBits(a \div 2, b \div 2, bits - 1)

\* Go's ^ on two values of type byte
Xor(a, b) == XorBits(a, b, 8)

\* the bytes the codec is exercised on: NUL, 1, '"', '{', the seed, 0xFF
ByteSample == {0, 1, 34, 123, 171, 255}

RECURSIVE SeqsUpTo(_, _)
\* all sequences over S of length at most n
SeqsUpTo(S, n) ==
    IF n = 0 THEN {<<>>}
    ELSE LET shorter == SeqsUpTo(S, n - 1)
         IN  shorter \cup {Append(s, x) : s \in {t \in shorter : Len(t) = n - 1}, x \in S}

----------------------------------------------------------------------------
(* Framing codec: tplinky.go *)

\* byte(171), the initial key of both directions
InitialKey == 171

\* binary.Write(b, binary.BigEndian, int32(n)) for 0 <= n < 2^31
BigEndian32(n) ==
    << (n \div 16777216) % 256, (n \div 65536) % 256, (n \div 256) % 256, n % 256 >>

RECURSIVE EncodeLoop(_, _)
\* for _, c := range p { key = key ^ c; b.WriteByte(key) }
EncodeLoop(key, p) ==
    IF p = <<>> THEN <<>>
    ELSE LET k == Xor(key, Head(p))
         IN  <<k>> \o EncodeLoop(k, Tail(p))

EncodeKeyNotChained(p) ==
    BigEndian32(Len(p)) \o [i \in 1..Len(p) |-> Xor(InitialKey, p[i])]

EncodeKeyFromLength(p) == BigEndian32(Len(p)) \o EncodeLoop(Xor(InitialKey, Len(p) % 256), p)

\* func Encode(p []byte) *bytes.Buffer
Encode(p) == BigEndian32(Len(p)) \o EncodeLoop(InitialKey, p)

RECURSIVE DecodeLoop(_, _)
\* for { c, err := input.ReadByte(); if err != nil { break }; b.WriteByte(key ^ c); key = c }
DecodeLoop(key, input) ==
    IF input = <<>> THEN <<>>
    ELSE <<Xor(key, Head(input))>> \o DecodeLoop(Head(input), Tail(input))

\* binary.Read(input, binary.BigEndian, &n) on a bytes.Buffer: io.ReadFull takes
\* four bytes, or all of them when fewer are left; the error is dropped
AfterPrefix(p) == IF Len(p) <= 4 THEN <<>> ELSE SubSeq(p, 5, Len(p))

RECURSIVE DecodeLoopKeyFromPlain(_, _)
DecodeLoopKeyFromPlain(key, input) ==
    IF input = <<>> THEN <<>>
    ELSE LET x == Xor(key, Head(input))
         IN  <<x>> \o DecodeLoopKeyFromPlain(x, Tail(input))

DecodeKeyFromPlain(p) == DecodeLoopKeyFromPlain(InitialKey, AfterPrefix(p))

DecodeChecked(p) ==
    IF Len(p) >= 4 /\ SubSeq(p, 1, 4) = BigEndian32(Len(p) - 4)
    THEN DecodeLoop(InitialKey, AfterPrefix(p))
    ELSE <<>>

\* func Decode(p []byte) *bytes.Buffer
Decode(p) == DecodeLoop(InitialKey, AfterPrefix(p))

----------------------------------------------------------------------------
(* The device at the far end of a Conn, and one exchange with it.          *)
(* A session S is [dev, log, fault]: the device's state, the exchanges the *)
(* running operation has issued so far, and the one exchange of this       *)
(* operation (if any) the transport or the device spoils.                  *)

\* the device-assigned child IDs, by socket position
ChildId(i) == <<"A", "B", "C", "D", "E">>[i]

\* error values: nil, a transport error of the k-th exchange of the call,
\* errors.New("response did not contain sysinfo"), and
\* fmt.Errorf("socket=%d not found in %d sockets", i, len)
NoErr == [kind |-> "nil", a |-> 0, b |-> 0]
TransportErr(k) == [kind |-> "transport", a |-> k, b |-> 0]
NoSysinfoErr == [kind |-> "nosysinfo", a |-> 0, b |-> 0]
RangeErr(i, n) == [kind |-> "range", a |-> i, b |-> n]

\* not an error value: the call did not return, it panicked with "invalid
\* memory address or nil pointer dereference".  No operation defers or
\* recovers, so the panic leaves every caller where an early return would
NilDeref == [kind |-> "panic", a |-> 0, b |-> 0]

\* a nil *Sysinfo
NilSysinfo == [nil |-> TRUE, relay_state |-> 0, children |-> <<>>]

\* Control{System: {GetSysinfo: {}}}
GetSysinfoCmd == [cmd |-> "get_sysinfo", hasCtx |-> FALSE, childIds |-> <<>>, state |-> 0]

\* Control{System: {SetRelayState: {State: &en}}}
SetRelayCmd(en) == [cmd |-> "set_relay_state", hasCtx |-> FALSE, childIds |-> <<>>, state |-> en]

\* Control{Context: {ChildIDs: ids}, System: {SetRelayState: {State: &en}}}
SetChildRelayCmd(ids, en) == [cmd |-> "set_relay_state", hasCtx |-> TRUE, childIds |-> ids, state |-> en]

\* what the device does with a command it received: set_relay_state with a
\* context sets the named children, without one it sets the single relay (on a
\* strip the top-level relay_state "does not change if you attempt to set it")
DeviceApply(d, c) ==
    IF c.cmd # "set_relay_state" THEN d
    ELSE IF c.hasCtx
         THEN [d EXCEPT !.children =
                 [i \in 1..Len(d.children) |->
                    IF \E j \in 1..Len(c.childIds) : c.childIds[j] = d.children[i].id
                    THEN [d.children[i] EXCEPT !.state = c.state]
                    ELSE d.children[i]]]
         ELSE IF Len(d.children) = 0 THEN [d EXCEPT !.relay = c.state] ELSE d

\* the device's get_sysinfo: relay_state and children as they are on the wire
DeviceSysinfo(d) == [nil |-> FALSE, relay_state |-> d.relay, children |-> d.children]

\* the outcome of the k-th exchange of the running operation
Outcome(S, k) == IF S.fault.at = k THEN S.fault.kind ELSE "ok"

\* func (c *Conn) Send(cmd Control) (*Response, error): one write and the read
\* loop.  "lost": the exchange fails before the device acts; "late": the device
\* acts and the reply is lost; "nosys": the reply lacks the branch the command
\* asks for (system for get_sysinfo, time for get_time, netif for get_scaninfo);
\* "nomember": the reply to get_sysinfo holds system without get_sysinfo, which
\* json.Unmarshal leaves as a nil *Sysinfo in SystemResponse.
Send(S, c) ==
    LET k   == Len(S.log) + 1
        o   == Outcome(S, k)
        d2  == IF o = "lost" THEN S.dev ELSE DeviceApply(S.dev, c)
        ex  == [cmd |-> c.cmd, hasCtx |-> c.hasCtx, childIds |-> c.childIds,
                state |-> c.state, outcome |-> o]
    IN  [S      |-> [S EXCEPT !.dev = d2, !.log = Append(S.log, ex)],
         err    |-> IF o \in {"lost", "late"} THEN TransportErr(k) ELSE NoErr,
         system |-> o # "nosys",
         branch |-> o # "nosys",
         sysinfo |-> IF o = "nomember" THEN NilSysinfo ELSE DeviceSysinfo(S.dev)]

----------------------------------------------------------------------------
(* Device operations: README.md lines 213-541 hold the package's operations *)

\* the quirk of GetStatus: RelayState of a device with children is the OR of
\* the children's states
AliasRelayState(sys) ==
    IF Len(sys.children) # 0
    THEN [sys EXCEPT !.relay_state =
            IF \E i \in 1..Len(sys.children) : sys.children[i].state # 0 THEN 1 ELSE 0]
    ELSE sys

GetStatusNoAlias(S) ==
    LET r == Send(S, GetSysinfoCmd)
    IN  IF r.err # NoErr THEN [S |-> r.S, err |-> r.err, sys |-> NilSysinfo]
        ELSE IF ~r.system THEN [S |-> r.S, err |-> NoSysinfoErr, sys |-> NilSysinfo]
        ELSE IF r.sysinfo.nil THEN [S |-> r.S, err |-> NilDeref, sys |-> NilSysinfo]
        ELSE [S |-> r.S, err |-> NoErr, sys |-> r.sysinfo]

\* func (c *Conn) GetStatus() (*Sysinfo, error); with r.System.GetSysinfo nil,
\* len(r.System.GetSysinfo.Children) dereferences a nil pointer
GetStatus(S) ==
    LET r == Send(S, GetSysinfoCmd)
    IN  IF r.err # NoErr THEN [S |-> r.S, err |-> r.err, sys |-> NilSysinfo]
        ELSE IF ~r.system THEN [S |-> r.S, err |-> NoSysinfoErr, sys |-> NilSysinfo]
        ELSE IF r.sysinfo.nil THEN [S |-> r.S, err |-> NilDeref, sys |-> NilSysinfo]
        ELSE [S |-> r.S, err |-> NoErr, sys |-> AliasRelayState(r.sysinfo)]

\* var en = 0; if on { en = 1 }
En(on) == IF on THEN 1 ELSE 0

RECURSIVE SelectLoop(_, _, _, _)
\* for _, i := range sockets { range check; if en != State { children = append(...) } }
SelectLoop(en, current, sockets, children) ==
    IF sockets = <<>> THEN [err |-> NoErr, children |-> children]
    ELSE LET i == Head(sockets)
         IN  IF i < 0 \/ i >= Len(current.children)
             THEN [err |-> RangeErr(i, Len(current.children)), children |-> <<>>]
             ELSE SelectLoop(en, current, Tail(sockets),
                             IF en # current.children[i + 1].state
                             THEN Append(children, current.children[i + 1].id)
                             ELSE children)

RECURSIVE SelectLoopSkipBad(_, _, _, _)
SelectLoopSkipBad(en, current, sockets, children) ==
    IF sockets = <<>> THEN [err |-> NoErr, children |-> children]
    ELSE LET i == Head(sockets)
         IN  IF i < 0 \/ i >= Len(current.children)
             THEN SelectLoopSkipBad(en, current, Tail(sockets), children)
             ELSE SelectLoopSkipBad(en, current, Tail(sockets),
                             IF en # current.children[i + 1].state
                             THEN Append(children, current.children[i + 1].id)
                             ELSE children)

SelectChildrenSkipBad(en, current, sockets) == SelectLoopSkipBad(en, current, sockets, <<>>)

RECURSIVE SelectLoopAll(_, _, _, _)
SelectLoopAll(en, current, sockets, children) ==
    IF sockets = <<>> THEN [err |-> NoErr, children |-> children]
    ELSE LET i == Head(sockets)
         IN  IF i < 0 \/ i >= Len(current.children)
             THEN [err |-> RangeErr(i, Len(current.children)), children |-> <<>>]
             ELSE SelectLoopAll(en, current, Tail(sockets),
                                Append(children, current.children[i + 1].id))

SelectChildrenAll(en, current, sockets) == SelectLoopAll(en, current, sockets, <<>>)

\* EnableSocket's first loop: validate every index, collect the IDs to write
SelectChildren(en, current, sockets) == SelectLoop(en, current, sockets, <<>>)

RECURSIVE WriteLoop(_, _, _, _)
\* for i := range children { _, err = c.Send(...children[i:i+1]...); if err != nil { break } }
WriteLoop(S, en, children, err) ==
    IF children = <<>> THEN [S |-> S, err |-> err]
    ELSE LET r == Send(S, SetChildRelayCmd(<<Head(children)>>, en))
         IN  IF r.err # NoErr THEN [S |-> r.S, err |-> r.err]
             ELSE WriteLoop(r.S, en, Tail(children), r.err)

RECURSIVE WriteLoopNoBreak(_, _, _, _)
WriteLoopNoBreak(S, en, children, err) ==
    IF children = <<>> THEN [S |-> S, err |-> err]
    ELSE LET r == Send(S, SetChildRelayCmd(<<Head(children)>>, en))
         IN  WriteLoopNoBreak(r.S, en, Tail(children), r.err)

WriteChildrenNoBreak(S, en, children) == WriteLoopNoBreak(S, en, children, NoErr)

\* EnableSocket's second loop: one scoped write per collected ID; err still
\* holds GetStatus's nil when the loop body never runs
WriteChildren(S, en, children) == WriteLoop(S, en, children, NoErr)

RECURSIVE InterleavedLoop(_, _, _, _)
InterleavedLoop(S, en, current, sockets) ==
    IF sockets = <<>> THEN [S |-> S, err |-> NoErr]
    ELSE LET i == Head(sockets)
         IN  IF i < 0 \/ i >= Len(current.children)
             THEN [S |-> S, err |-> RangeErr(i, Len(current.children))]
             ELSE IF en = current.children[i + 1].state
                  THEN InterleavedLoop(S, en, current, Tail(sockets))
                  ELSE LET r == Send(S, SetChildRelayCmd(<<current.children[i + 1].id>>, en))
                       IN  IF r.err # NoErr THEN [S |-> r.S, err |-> r.err]
                           ELSE InterleavedLoop(r.S, en, current, Tail(sockets))

EnableSocketInterleaved(S, on, sockets) ==
    LET g == GetStatus(S)
    IN  IF g.err # NoErr THEN [S |-> g.S, err |-> g.err]
        ELSE InterleavedLoop(g.S, En(on), g.sys, sockets)

\* func (c *Conn) EnableSocket(on bool, sockets ...int) error
EnableSocket(S, on, sockets) ==
    LET g == GetStatus(S)
    IN  IF g.err # NoErr THEN [S |-> g.S, err |-> g.err]
        ELSE LET sel == SelectChildren(En(on), g.sys, sockets)
             IN  IF sel.err # NoErr THEN [S |-> g.S, err |-> sel.err]
                 ELSE WriteChildren(g.S, En(on), sel.children)

EnableNoStatus(S, on) ==
    LET r == Send(S, SetRelayCmd(En(on)))
    IN  [S |-> r.S, err |-> r.err]

EnableUnscoped(S, on) ==
    LET g == GetStatus(S)
    IN  IF g.err # NoErr THEN [S |-> g.S, err |-> g.err]
        ELSE IF g.sys.relay_state = En(on) THEN [S |-> g.S, err |-> NoErr]
             ELSE LET r == Send(g.S, SetRelayCmd(En(on)))
                  IN  [S |-> r.S, err |-> r.err]

EnableRetriesStatus(S, on) ==
    LET g0 == GetStatus(S)
        g  == IF g0.err # NoErr THEN GetStatus(g0.S) ELSE g0
    IN  IF g.err # NoErr THEN [S |-> g.S, err |-> g.err]
        ELSE IF Len(g.sys.children) # 0
             THEN EnableSocket(g.S, on, [i \in 1..Len(g.sys.children) |-> i - 1])
             ELSE IF g.sys.relay_state = En(on) THEN [S |-> g.S, err |-> NoErr]
                  ELSE LET r == Send(g.S, SetRelayCmd(En(on)))
                       IN  [S |-> r.S, err |-> r.err]

\* func (c *Conn) Enable(on bool) error
Enable(S, on) ==
    LET g == GetStatus(S)
    IN  IF g.err # NoErr THEN [S |-> g.S, err |-> g.err]
        ELSE IF Len(g.sys.children) # 0
             THEN EnableSocket(g.S, on, [i \in 1..Len(g.sys.children) |-> i - 1])
             ELSE IF g.sys.relay_state = En(on) THEN [S |-> g.S, err |-> NoErr]
                  ELSE LET r == Send(g.S, SetRelayCmd(En(on)))
                       IN  [S |-> r.S, err |-> r.err]

----------------------------------------------------------------------------
(* The other device operations: README.md lines 395-502 *)

\* ErrTimeFailed = errors.New("get_time failed")
ErrTimeFailed == [kind |-> "timefailed", a |-> 0, b |-> 0]

\* ErrNoWiFiScan = errors.New("wifi scan unavailable")
ErrNoWiFiScan == [kind |-> "nowifiscan", a |-> 0, b |-> 0]

\* a Control that holds one command and no context
Command(name) == [cmd |-> name, hasCtx |-> FALSE, childIds |-> <<>>, state |-> 0]

GetTimeIgnoresBranch(S) ==
    LET r == Send(S, Command("get_time"))
    IN  IF r.err # NoErr THEN [S |-> r.S, err |-> r.err, out |-> "local"]
        ELSE [S |-> r.S, err |-> r.err, out |-> "device"]

\* func (c *Conn) GetTime() (time.Time, error): t is time.Now() ("local")
\* unless the reply holds time.get_time ("device")
GetTime(S) ==
    LET r == Send(S, Command("get_time"))
    IN  IF r.err # NoErr THEN [S |-> r.S, err |-> r.err, out |-> "local"]
        ELSE IF ~r.branch THEN [S |-> r.S, err |-> ErrTimeFailed, out |-> "local"]
        ELSE [S |-> r.S, err |-> r.err, out |-> "device"]

\* func (c *Conn) SetTime(t time.Time) error
SetTime(S) ==
    LET r == Send(S, Command("set_timezone"))
    IN  [S |-> r.S, err |-> r.err, out |-> "none"]

\* func (c *Conn) SetAlias(name string) error
SetAlias(S) ==
    LET r == Send(S, Command("set_dev_alias"))
    IN  [S |-> r.S, err |-> r.err, out |-> "none"]

\* func (c *Conn) FactoryReset() error
FactoryReset(S) ==
    LET r == Send(S, Command("reset"))
    IN  [S |-> r.S, err |-> r.err, out |-> "none"]

\* func (c *Conn) SetWiFi(ssid, password string) error
SetWiFi(S) ==
    LET r == Send(S, Command("set_stainfo"))
    IN  [S |-> r.S, err |-> r.err, out |-> "none"]

ListWiFiRetries(S) ==
    LET r == Send(S, Command("get_scaninfo"))
    IN  IF r.err # NoErr THEN [S |-> r.S, err |-> r.err, out |-> "nil"]
        ELSE IF r.branch THEN [S |-> r.S, err |-> NoErr, out |-> "detail"]
        ELSE LET q == Send(r.S, Command("get_scaninfo"))
             IN  IF q.err # NoErr THEN [S |-> q.S, err |-> q.err, out |-> "nil"]
                 ELSE IF q.branch THEN [S |-> q.S, err |-> NoErr, out |-> "detail"]
                 ELSE [S |-> q.S, err |-> ErrNoWiFiScan, out |-> "nil"]

\* func (c *Conn) ListWiFi() (*GetScanInfoResponse, error): the body of the
\* for loop ends in break, so it runs once
ListWiFi(S) ==
    LET r == Send(S, Command("get_scaninfo"))
    IN  IF r.err # NoErr THEN [S |-> r.S, err |-> r.err, out |-> "nil"]
        ELSE IF r.branch THEN [S |-> r.S, err |-> NoErr, out |-> "detail"]
        ELSE [S |-> r.S, err |-> ErrNoWiFiScan, out |-> "nil"]

----------------------------------------------------------------------------
(* Conn and its transport: tplinky.go lines 245-369.                        *)
(* A transport T is [conn, deadline, inbox, pending, inflight, nsent,       *)
(* trace]: the net.Conn ("open" or "closed"), whether a deadline is armed,  *)
(* the reply bytes the socket holds, the segments that arrive while the     *)
(* running Send waits, the bytes that land after it returned, the number of *)
(* commands the device has received, and the calls made on the net.Conn.    *)
(* Reply bytes are kept as pieces [of, lo, n, total]: n bytes from offset   *)
(* lo of the total bytes of the device's reply to its command number `of`.  *)
(* T.reads lists the n of each Read of the running Send that got bytes.     *)

\* var ErrNotOpen = errors.New("not open")
ErrNotOpen == "not open"

\* the errors of the net.Conn and of json.Unmarshal, and a nil error
ErrClosed == "use of closed network connection"
ErrWrite == "write failed"
ErrTimeout == "i/o timeout"
ErrMalformed == "unmarshal failed"
ErrNone == "nil"

\* d := make([]byte, 1028)
ReadSize == 1028

Min(a, b) == IF a < b THEN a ELSE b

RECURSIVE Bytes(_)
\* the number of bytes a sequence of pieces holds
Bytes(q) == IF q = <<>> THEN 0 ELSE Head(q).n + Bytes(Tail(q))

RECURSIVE Take(_, _)
\* the first n bytes of the socket's buffer, and what stays in it
Take(q, n) ==
    IF n = 0 \/ q = <<>> THEN [got |-> <<>>, rest |-> q]
    ELSE LET h == Head(q)
         IN  IF h.n <= n
             THEN LET t == Take(Tail(q), n - h.n)
                  IN  [got |-> <<h>> \o t.got, rest |-> t.rest]
             ELSE [got |-> <<[h EXCEPT !.n = n]>>,
                   rest |-> <<[h EXCEPT !.lo = h.lo + n, !.n = h.n - n]>> \o Tail(q)]

\* c.conn.SetDeadline(t): arms or clears the deadline of an open net.Conn; on a
\* closed one it returns an error, which Send drops
SetDeadline(T, armed) ==
    [T EXCEPT !.deadline = IF T.conn = "open" THEN armed ELSE @,
              !.trace = Append(@, IF armed THEN "SetDeadline" ELSE "ClearDeadline")]

\* the reply of the device to its command number k, as the plan has it arrive:
\* at once, when the first Read waits, in two segments, after the deadline,
\* or not at all
Reply(k, plan) == [of |-> k, lo |-> 0, n |-> plan.len, total |-> plan.len]
ReplyHead(k, plan) == [of |-> k, lo |-> 0, n |-> plan.cut, total |-> plan.len]
ReplyTail(k, plan) == [of |-> k, lo |-> plan.cut, n |-> plan.len - plan.cut, total |-> plan.len]

\* c.conn.Write(Encode(b.Bytes()).Bytes()): fails on a closed net.Conn and when
\* the transport fails; else the device receives the command and replies
ConnWrite(T, plan) ==
    LET T1 == [T EXCEPT !.trace = Append(@, "Write")]
        k  == T.nsent + 1
    IN  IF T.conn # "open" THEN [T |-> T1, err |-> ErrClosed]
        ELSE IF plan.write = "err" THEN [T |-> T1, err |-> ErrWrite]
        ELSE [T |-> [T1 EXCEPT
                      !.nsent = k,
                      !.inbox = IF plan.arrive = "prompt" THEN Append(@, Reply(k, plan)) ELSE @,
                      !.pending = IF plan.arrive = "slow" THEN <<Reply(k, plan)>>
                                  ELSE IF plan.arrive = "split"
                                       THEN <<ReplyHead(k, plan), ReplyTail(k, plan)>>
                                       ELSE <<>>,
                      !.inflight = IF plan.arrive = "late" THEN Append(@, Reply(k, plan)) ELSE @],
              err |-> ErrNone]

ReadLoopOnce(T, resp) ==
    LET T1 == IF T.inbox = <<>> /\ T.pending # <<>>
              THEN [T EXCEPT !.inbox = <<Head(T.pending)>>, !.pending = Tail(T.pending)]
              ELSE T
        T2 == [T1 EXCEPT !.trace = Append(@, "Read")]
    IN  IF T2.inbox = <<>> THEN [T |-> T2, err |-> ErrTimeout, resp |-> resp]
        ELSE LET n == Min(ReadSize, Bytes(T2.inbox))
                 t == Take(T2.inbox, n)
             IN  [T |-> [T2 EXCEPT !.inbox = t.rest, !.reads = Append(@, n)],
                  err |-> ErrNone, resp |-> resp \o t.got]

RECURSIVE ReadLoopStopsWhenDrained(_, _)
ReadLoopStopsWhenDrained(T, resp) ==
    LET T1 == IF T.inbox = <<>> /\ T.pending # <<>>
              THEN [T EXCEPT !.inbox = <<Head(T.pending)>>, !.pending = Tail(T.pending)]
              ELSE T
        T2 == [T1 EXCEPT !.trace = Append(@, "Read")]
    IN  IF T2.inbox = <<>>
        THEN [T |-> T2, err |-> IF resp = <<>> THEN ErrTimeout ELSE ErrNone, resp |-> resp]
        ELSE LET n == Min(ReadSize, Bytes(T2.inbox))
                 t == Take(T2.inbox, n)
                 T3 == [T2 EXCEPT !.inbox = t.rest, !.reads = Append(@, n)]
             IN  IF n # ReadSize THEN [T |-> T3, err |-> ErrNone, resp |-> resp \o t.got]
                 ELSE ReadLoopStopsWhenDrained(T3, resp \o t.got)

RECURSIVE ReadLoop(_, _)
\* for { n, err := c.Read(d); if err != nil { return nil, err };
\*       resp = append(resp, d[:n]...); if n != 1028 { break } }
\* c.conn.Read returns the bytes the socket holds, at most len(d); with none it
\* waits for the next segment, and fails when the deadline passes first
ReadLoop(T, resp) ==
    LET T1 == IF T.inbox = <<>> /\ T.pending # <<>>
              THEN [T EXCEPT !.inbox = <<Head(T.pending)>>, !.pending = Tail(T.pending)]
              ELSE T
        T2 == [T1 EXCEPT !.trace = Append(@, "Read")]
    IN  IF T2.inbox = <<>> THEN [T |-> T2, err |-> ErrTimeout, resp |-> resp]
        ELSE LET n == Min(ReadSize, Bytes(T2.inbox))
                 t == Take(T2.inbox, n)
                 T3 == [T2 EXCEPT !.inbox = t.rest, !.reads = Append(@, n)]
             IN  IF n # ReadSize THEN [T |-> T3, err |-> ErrNone, resp |-> resp \o t.got]
                 ELSE ReadLoop(T3, resp \o t.got)

\* json.Unmarshal(Decode(resp).Bytes(), &r) succeeds when resp is one whole
\* reply: a proper prefix of a JSON object is not JSON, and bytes past the
\* first reply, or a reply read from its middle, decode to no JSON
WholeReply(resp) ==
    /\ resp # <<>>
    /\ \A i \in 1..Len(resp) : resp[i].of = resp[1].of
    /\ resp[1].lo = 0
    /\ Bytes(resp) = resp[1].total

\* the deferred c.conn.SetDeadline(time.Time{}) runs on every return after the
\* defer statement; segments still on their way land after the return
Deferred(T) ==
    LET T1 == SetDeadline(T, FALSE)
    IN  [T1 EXCEPT !.inflight = @ \o T.pending, !.pending = <<>>]

SendNoDefer(T, plan) ==
    LET w == ConnWrite(SetDeadline(T, TRUE), plan)
    IN  IF w.err # ErrNone THEN [T |-> [w.T EXCEPT !.inflight = @ \o w.T.pending, !.pending = <<>>],
                                 err |-> w.err, resp |-> 0]
        ELSE LET r == ReadLoop(w.T, <<>>)
             IN  IF r.err # ErrNone
                 THEN [T |-> [r.T EXCEPT !.inflight = @ \o r.T.pending, !.pending = <<>>],
                       err |-> r.err, resp |-> 0]
                 ELSE IF ~WholeReply(r.resp)
                      THEN [T |-> [r.T EXCEPT !.inflight = @ \o r.T.pending, !.pending = <<>>],
                            err |-> ErrMalformed, resp |-> 0]
                      ELSE [T |-> Deferred(r.T), err |-> ErrNone, resp |-> r.resp[1].of]

\* func (c *Conn) Send(cmd Control) (*Response, error) on a Conn whose net.Conn
\* is not nil; resp is the number of the command the returned Response replies
\* to, 0 for a nil Response.  json.Marshal of a Control does not fail.
ConnSend(T, plan) ==
    LET w == ConnWrite(SetDeadline(T, TRUE), plan)
    IN  IF w.err # ErrNone THEN [T |-> Deferred(w.T), err |-> w.err, resp |-> 0]
        ELSE LET r == ReadLoop(w.T, <<>>)
             IN  IF r.err # ErrNone THEN [T |-> Deferred(r.T), err |-> r.err, resp |-> 0]
                 ELSE IF ~WholeReply(r.resp)
                      THEN [T |-> Deferred(r.T), err |-> ErrMalformed, resp |-> 0]
                      ELSE [T |-> Deferred(r.T), err |-> ErrNone, resp |-> r.resp[1].of]

\* c == nil || c.target == ""
NotOpen(c) == c.ptr = "nil" \/ c.target = ""

CloseKeepsTarget(c) ==
    IF NotOpen(c) THEN [c |-> c, err |-> ErrNotOpen, trace |-> <<>>]
    ELSE [c |-> [c EXCEPT !.conn = "closed"],
          err |-> IF c.conn = "open" THEN ErrNone ELSE ErrClosed, trace |-> <<"Close">>]

\* func (c *Conn) Close() error
Close(c) ==
    IF NotOpen(c) THEN [c |-> c, err |-> ErrNotOpen, trace |-> <<>>]
    ELSE [c |-> [c EXCEPT !.target = "", !.conn = "closed"],
          err |-> IF c.conn = "open" THEN ErrNone ELSE ErrClosed, trace |-> <<"Close">>]

----------------------------------------------------------------------------
(* Energy meter operations: README.md lines 506-541.                        *)
(* A meter M is [branch, get_err, erase_err, power_mw, total_wh]: what the  *)
(* device's reply holds under "emeter" ("none": no emeter object, "empty":  *)
(* an emeter object without the command's member, "present"), the err_code *)
(* it reports for get_realtime and for erase_emeter_stat, and its readings. *)

\* ErrNoEMeter = errors.New("no emeter responded")
ErrNoEMeter == [kind |-> "noemeter", a |-> 0, b |-> 0]

\* fmt.Errorf("emeter error %d", eCode)
EMeterError(eCode) == [kind |-> "emeter", a |-> eCode, b |-> 0]

\* a nil *EMeterResponse
NilMeasurement == [nil |-> TRUE, err_code |-> 0, power_mw |-> 0, total_wh |-> 0]

\* what the device does with a meter command it received: erase_emeter_stat
\* clears the integrated energy when the device accepts it
MeterApply(M, cmd) ==
    IF cmd = "erase_emeter_stat" /\ M.branch = "present" /\ M.erase_err = 0
    THEN [M EXCEPT !.total_wh = 0]
    ELSE M

\* the device's reply to a meter command: resp.EMeter and its member
MeterReply(M, cmd) ==
    [emeter |-> M.branch # "none",
     member |-> M.branch = "present",
     value  |-> [nil |-> FALSE,
                 err_code |-> IF cmd = "get_realtime" THEN M.get_err ELSE M.erase_err,
                 power_mw |-> M.power_mw, total_wh |-> M.total_wh]]

\* c.Send(Control{EMeter: ...}): one exchange, spoiled as o says ("lost": it
\* fails before the device acts; "late": the device acts and the reply is lost)
MeterSend(M, cmd, o) ==
    [M    |-> IF o = "lost" THEN M ELSE MeterApply(M, cmd),
     err  |-> IF o \in {"lost", "late"} THEN TransportErr(1) ELSE NoErr,
     resp |-> MeterReply(M, cmd),
     sent |-> 1]

EMonStateIgnoresCode(M, o) ==
    LET r == MeterSend(M, "get_realtime", o)
    IN  IF r.err # NoErr THEN [M |-> r.M, sent |-> r.sent, err |-> r.err, meas |-> NilMeasurement]
        ELSE IF ~r.resp.emeter \/ ~r.resp.member
             THEN [M |-> r.M, sent |-> r.sent, err |-> ErrNoEMeter, meas |-> NilMeasurement]
             ELSE [M |-> r.M, sent |-> r.sent, err |-> NoErr, meas |-> r.resp.value]

\* func (c *Conn) EMonState() (*EMeterResponse, error)
EMonState(M, o) ==
    LET r == MeterSend(M, "get_realtime", o)
    IN  IF r.err # NoErr THEN [M |-> r.M, sent |-> r.sent, err |-> r.err, meas |-> NilMeasurement]
        ELSE IF ~r.resp.emeter \/ ~r.resp.member
             THEN [M |-> r.M, sent |-> r.sent, err |-> ErrNoEMeter, meas |-> NilMeasurement]
             ELSE IF r.resp.value.err_code # 0
                  THEN [M |-> r.M, sent |-> r.sent, err |-> EMeterError(r.resp.value.err_code),
                        meas |-> NilMeasurement]
                  ELSE [M |-> r.M, sent |-> r.sent, err |-> NoErr, meas |-> r.resp.value]

\* func (c *Conn) EMonReset() error
EMonReset(M, o) ==
    LET r == MeterSend(M, "erase_emeter_stat", o)
    IN  IF r.err # NoErr THEN [M |-> r.M, sent |-> r.sent, err |-> r.err, meas |-> NilMeasurement]
        ELSE IF ~r.resp.emeter \/ ~r.resp.member
             THEN [M |-> r.M, sent |-> r.sent, err |-> ErrNoEMeter, meas |-> NilMeasurement]
             ELSE IF r.resp.value.err_code # 0
                  THEN [M |-> r.M, sent |-> r.sent, err |-> EMeterError(r.resp.value.err_code),
                        meas |-> NilMeasurement]
                  ELSE [M |-> r.M, sent |-> r.sent, err |-> NoErr, meas |-> NilMeasurement]

----------------------------------------------------------------------------
(* Scan: address arithmetic, README.md lines 274-321 *)

RECURSIVE Pow2(_)
Pow2(n) == IF n = 0 THEN 1 ELSE 2 * Pow2(n - 1)

\* the number of values of the address type
AddrMod == Pow2(AddrBits)

Addrs == 0..(AddrMod - 1)

RECURSIVE AndBits(_, _, _)
AndBits(a, b, bits) ==
    IF bits = 0 THEN 0
    ELSE ((a % 2) * (b % 2)) + 2 * AndBits(a \div 2, b \div 2, bits - 1)

\* a & b, a | b and ^a on the address type
And(a, b) == AndBits(a, b, AddrBits)
Or(a, b) == a + b - And(a, b)
Not(a) == (AddrMod - 1) - a

\* net.CIDRMask(bits, width) read by binary.BigEndian.Uint32
CIDRMask(bits) == AddrMod - Pow2(AddrBits - bits)

\* first := binary.BigEndian.Uint32(nInfo.IP); ParseCIDR has masked nInfo.IP
ScanFirst(net) == And(net.ip, CIDRMask(net.bits))

\* last := (first & mask) | ^mask
ScanLast(net) == Or(And(ScanFirst(net), CIDRMask(net.bits)), Not(CIDRMask(net.bits)))

\* n := first + 1 and n++ on the address type
Incr(n) == (n + 1) % AddrMod

RECURSIVE LoopAddrs(_, _)
\* the values n takes in: for n := ...; n < last; n++
LoopAddrs(n, lst) == IF n < lst THEN {n} \cup LoopAddrs(Incr(n), lst) ELSE {}

\* the addresses Scan(net) spawns a worker for
ScanAddrs(net) == IF net.ok THEN LoopAddrs(Incr(ScanFirst(net)), ScanLast(net)) ELSE {}

\* target := net.IP(ip).String() after PutUint32(ip, n): the big-endian digits
\* of n (two bits to the low digit), the map key
Target(n) == << n \div 4, n % 4 >>

\* wg.Wait() and wg0.Wait() return when the counter is zero
WgWaitEarly(c) == TRUE
WgWaitReturns(c) == c = 0

Wg0WaitEarly(c) == TRUE
Wg0WaitReturns(c) == c = 0

\* sys, err := c.GetStatus(); if err != nil { return }
StatusFailedNever(err) == FALSE
StatusFailed(err) == err # NoErr

\* where a returning worker goes: to its deferred c.Close() when the dial had
\* succeeded (the defer was reached), else straight to the deferred wg.Done()
OnReturnNoClose(opened) == "exit"
OnReturn(opened) == IF opened THEN "closing" ELSE "exit"

\* result[r.addr4] = r.sys
StoreResult(res, r) == (r.addr4 :> r.sys) @@ res

\* make(map[string]*Sysinfo, 2)
EmptyMap == [x \in {} |-> NilSysinfo]

----------------------------------------------------------------------------
(* Initial values and inputs *)

\* the devices: a single relay off or on, and the strips of up to MaxChildren
\* sockets in every combination of states, reporting either relay_state
Devices ==
    {[relay |-> r, children |-> <<>>] : r \in 0..1}
    \cup UNION {
        {[relay |-> r, children |-> [i \in 1..n |-> [id |-> ChildId(i), state |-> st[i]]]] :
            r \in 0..1, st \in [1..n -> 0..1]} : n \in 1..MaxChildren }

\* the exchange of an operation that is spoiled, and how
NoFault == [at |-> 0, kind |-> "ok"]
Faults(maxAt) ==
    {NoFault} \cup {[at |-> k, kind |-> x] : k \in 1..maxAt, x \in {"lost", "late", "nosys", "nomember"}}

\* the index lists handed to EnableSocket: in range, below and above it
SocketLists == SeqsUpTo(-1..MaxChildren, MaxSockets)

NoCall == [op |-> "none", on |-> FALSE, sockets |-> <<>>, before |-> [relay |-> 0, children |-> <<>>],
           log |-> <<>>, err |-> NoErr, sys |-> NilSysinfo, panic |-> FALSE]

\* the exchanges of a log that are set_relay_state writes
Writes(log) == SelectSeq(log, LAMBDA e : e.cmd = "set_relay_state")

\* what the caller remembers of the operation before the last one: what it
\* was, whether it returned nil, how many writes it issued, and the relay
\* state and number of children the device had when it began
Summary(c) == [op |-> c.op, on |-> c.on, ok |-> c.err = NoErr, writes |-> Len(Writes(c.log)),
               relay |-> c.before.relay, kids |-> Len(c.before.children)]

\* what a scanned address does: refuses the connection, or accepts it and
\* answers get_sysinfo as device dev, with the exchange spoiled as fault says
ScanDevices ==
    {[relay |-> 0, children |-> <<>>], [relay |-> 1, children |-> <<>>],
     [relay |-> 0, children |-> <<[id |-> ChildId(1), state |-> 1]>>]}
HostKinds ==
    {[up |-> FALSE, dev |-> [relay |-> 0, children |-> <<>>], fault |-> NoFault]}
    \cup {[up |-> TRUE, dev |-> d, fault |-> NoFault] : d \in ScanDevices}
    \cup {[up |-> TRUE, dev |-> [relay |-> 0, children |-> <<>>], fault |-> [at |-> 1, kind |-> k]] :
            k \in {"lost", "nosys"}}

Networks ==
    {[ok |-> FALSE, ip |-> 0, bits |-> 0]}
    \cup {n \in [ok : {TRUE}, ip : Addrs, bits : 0..AddrBits] : Cardinality(ScanAddrs(n)) <= MaxHosts}

\* the Conn values a caller can hold: the nil *Conn DialTimeout returns with
\* an error, the zero Conn, and the Conn DialTimeout returns on success
ConnValues ==
    {[ptr |-> "nil", target |-> "", conn |-> "nil"],
     [ptr |-> "ok", target |-> "", conn |-> "nil"],
     [ptr |-> "ok", target |-> "host:9999", conn |-> "open"]}

\* the sizes of the device's replies: short, exactly one read, more than one,
\* exactly two reads, more than two
ReplyLens == {40, ReadSize, 1500, 2 * ReadSize, 2500}

\* where a reply that arrives in two segments is cut
Cuts(len) == {len \div 2} \cup (IF len > ReadSize THEN {ReadSize} ELSE {})

\* what the transport and the device do with one Send: the write fails; no
\* reply comes; the reply is there before the first Read ("prompt"), comes
\* while it waits ("slow"), comes in two segments ("split"), or comes after
\* the deadline ("late")
NoReply == [write |-> "ok", len |-> 0, cut |-> 0, arrive |-> "never"]
SendPlans ==
    {[write |-> "err", len |-> 0, cut |-> 0, arrive |-> "never"], NoReply}
    \cup {[write |-> "ok", len |-> l, cut |-> 0, arrive |-> a] :
            l \in ReplyLens, a \in {"prompt", "slow", "late"}}
    \cup UNION {{[write |-> "ok", len |-> l, cut |-> c, arrive |-> "split"] : c \in Cuts(l)} :
            l \in ReplyLens}

NoRet == [op |-> "none", before |-> [ptr |-> "nil", target |-> "", conn |-> "nil"],
          dlBefore |-> FALSE, err |-> ErrNone, panic |-> FALSE, resp |-> 0, wrote |-> 0,
          trace |-> <<>>, prevOp |-> "none", prevErr |-> ErrNone,
          plan |-> NoReply, reads |-> <<>>, stale |-> 0]

\* the transport of a Conn that DialTimeout has just returned
FreshTransport ==
    [conn |-> "open", deadline |-> FALSE, inbox |-> <<>>, pending |-> <<>>,
     inflight |-> <<>>, nsent |-> 0, trace |-> <<>>, reads |-> <<>>]

ConnIdle ==
    /\ cn = [ptr |-> "nil", target |-> "", conn |-> "nil"]
    /\ deadline = FALSE /\ inbox = <<>> /\ inflight = <<>> /\ nsent = 0
    /\ ccalls = 0 /\ ret = NoRet

\* the err_code values a device reports: accepted, and two refusals
ErrCodes == {-1, 0, 1}

\* the meters: a device without one, a reply without the command's member,
\* and a meter with every combination of codes and readings
NoMeter == [branch |-> "none", get_err |-> 0, erase_err |-> 0, power_mw |-> 0, total_wh |-> 0]
Meters ==
    {NoMeter, [NoMeter EXCEPT !.branch = "empty"]}
    \cup [branch : {"present"}, get_err : ErrCodes, erase_err : ErrCodes,
          power_mw : 0..1, total_wh : 0..MaxWH]

NoMeterCall == [op |-> "none", before |-> NoMeter, outcome |-> "ok", err |-> NoErr,
                meas |-> NilMeasurement]

MeterIdle == em = NoMeter /\ ecalls = 0 /\ eret = NoMeterCall

CodecIdle == cpc = "idle" /\ cPlain = <<>> /\ cWire = <<>> /\ cOut = <<>>

OpsIdle == dev = [relay |-> 0, children |-> <<>>] /\ calls = 0 /\ last = NoCall /\ prev = Summary(NoCall)

ScanIdle ==
    /\ spc = "idle" /\ network = [ok |-> FALSE, ip |-> 0, bits |-> 0]
    /\ hostOf = EmptyMap /\ sn = 0
    /\ wpc = [a \in Addrs |-> "none"] /\ wsys = [a \in Addrs |-> NilSysinfo]
    /\ wopen = [a \in Addrs |-> FALSE] /\ wexch = [a \in Addrs |-> 0]
    /\ wg = 0 /\ wg0 = 0 /\ chClosed = FALSE /\ kpc = "none"
    /\ kr = [addr4 |-> <<0, 0>>, sys |-> NilSysinfo] /\ result = EmptyMap

----------------------------------------------------------------------------
(* SpecCodec: the codec applied to every plaintext of the sample *)

\* the plaintexts: every sequence of sample bytes up to MaxLen, every single
\* byte, and every byte followed by a sample byte
Plaintexts ==
    SeqsUpTo(ByteSample, MaxLen)
    \cup {<<b>> : b \in 0..255}
    \cup {<<b, c>> : b \in 0..255, c \in ByteSample}

InitCodec ==
    /\ cpc = "input" /\ cPlain \in Plaintexts
    /\ cWire = <<>> /\ cOut = <<>>
    /\ OpsIdle /\ ScanIdle /\ ConnIdle /\ MeterIdle

\* wire := Encode(p).Bytes()
CodecEncode ==
    /\ cpc = "input"
    /\ cWire' = Encode(cPlain)
    /\ cpc' = "encoded"
    /\ UNCHANGED <<cPlain, cOut, opVars, scanVars, connVars, meterVars>>

\* out := Decode(wire).Bytes()
CodecDecode ==
    /\ cpc = "encoded"
    /\ cOut' = Decode(cWire)
    /\ cpc' = "decoded"
    /\ UNCHANGED <<cPlain, cWire, opVars, scanVars, connVars, meterVars>>

NextCodec == CodecEncode \/ CodecDecode

SpecCodec == InitCodec /\ [][NextCodec]_vars

----------------------------------------------------------------------------
(* SpecWire: the receiving side of the codec applied to buffers as a       *)
(* transport can deliver them: fewer than four bytes, or four bytes of     *)
(* length prefix, right or wrong, followed by cipher bytes.                *)

\* the cipher bytes of the sample: NUL, and the two bytes that "{}" encodes
\* to (Encode("{}") is 0 0 0 2 208 173)
WireBytes == {0, 208, 173}

\* length prefixes: int32 0, 2 and 9, and 0xFFFFFFFF (int32 -1)
Prefixes == {BigEndian32(n) : n \in {0, 2, 9}} \cup {<<255, 255, 255, 255>>}

Received ==
    SeqsUpTo(WireBytes, 3)
    \cup {pre \o body : pre \in Prefixes, body \in SeqsUpTo(WireBytes, MaxLen)}

\* func (c *Conn) Read(p []byte): n, err = c.conn.Read(p) stores the bytes
\* received in p[:n]; Encode(p[:n]) writes into a buffer of its own and its
\* result is dropped, so p[:n] is left as received
ConnRead(received) ==
    LET dropped == Encode(received)
    IN  [n |-> Len(received), p |-> received]

\* json.Unmarshal(x.Bytes(), &r) returns nil: of the texts the cipher bytes
\* of the sample decode to, the one JSON document is "{}"
UnmarshalOk(x) == x = <<123, 125>>

InitWire ==
    /\ cpc = "wire" /\ cWire \in Received
    /\ cPlain = <<>> /\ cOut = <<>>
    /\ OpsIdle /\ ScanIdle /\ ConnIdle /\ MeterIdle

\* out := Decode(received).Bytes()
WireDecode ==
    /\ cpc = "wire"
    /\ cOut' = Decode(cWire)
    /\ cpc' = "unpacked"
    /\ UNCHANGED <<cPlain, cWire, opVars, scanVars, connVars, meterVars>>

\* n, err := c.Read(p) with a nil error; out := p[:n]
WireRead ==
    /\ cpc = "wire"
    /\ cOut' = ConnRead(cWire).p
    /\ cpc' = "read"
    /\ UNCHANGED <<cPlain, cWire, opVars, scanVars, connVars, meterVars>>

\* the end of Send for a reply that one short read delivers: resp is what
\* c.Read left in d[:n], x := Decode(resp), and Send returns &r exactly when
\* json.Unmarshal returns nil
WireAccept ==
    /\ cpc = "wire"
    /\ LET resp == ConnRead(cWire).p
           x    == Decode(resp)
       IN  /\ cOut' = x
           /\ cpc' = IF UnmarshalOk(x) THEN "accepted" ELSE "rejected"
    /\ UNCHANGED <<cPlain, cWire, opVars, scanVars, connVars, meterVars>>

NextWire == WireDecode \/ WireRead \/ WireAccept

SpecWire == InitWire /\ [][NextWire]_vars

----------------------------------------------------------------------------
(* Spec: one caller, one Conn, one device.  Each action is one whole       *)
(* operation; the operations of one Conn run one after the other.  The     *)
(* caller issues up to MaxCalls operations: GetStatus and Enable in any    *)
(* order, or, as tple does, one EnableSocket followed by status reads.     *)
(* Every device state is an initial state, so EnableSocket is explored     *)
(* from every state a device can be in.                                    *)

Init ==
    /\ dev \in Devices /\ calls = 0 /\ last = NoCall /\ prev = Summary(NoCall)
    /\ CodecIdle /\ ScanIdle /\ ConnIdle /\ MeterIdle

Returned(op, on, sockets, r, sys) ==
    /\ dev' = r.S.dev
    /\ last' = [op |-> op, on |-> on, sockets |-> sockets, before |-> dev,
                log |-> r.S.log, err |-> r.err, sys |-> sys, panic |-> r.err = NilDeref]
    /\ prev' = Summary(last)
    /\ calls' = calls + 1
    /\ UNCHANGED <<codecVars, scanVars, connVars, meterVars>>

\* a fault is drawn only where it takes effect: on an exchange the operation
\* reaches, "nosys" only on a command that reads a branch, "nomember" only on
\* a get_sysinfo, "late" only on a set_relay_state (a get_sysinfo changes
\* nothing on the device: "lost" covers it)
Effective(f, r) ==
    \/ f.at = 0
    \/ /\ f.at <= Len(r.S.log)
       /\ f.kind = "nosys" => r.S.log[f.at].cmd \in {"get_sysinfo", "get_time", "get_scaninfo"}
       /\ f.kind = "nomember" => r.S.log[f.at].cmd = "get_sysinfo"
       /\ f.kind = "late" => r.S.log[f.at].cmd = "set_relay_state"

Session(f) == [dev |-> dev, log |-> <<>>, fault |-> f]

\* a panic ends the program: the caller makes no further call
DoGetStatus ==
    /\ calls < MaxCalls /\ ~last.panic
    /\ \E f \in Faults(1) :
         LET r == GetStatus(Session(f))
         IN  Effective(f, r) /\ Returned("GetStatus", FALSE, <<>>, r, r.sys)

DoEnable ==
    /\ calls < MaxCalls /\ ~last.panic /\ last.op # "EnableSocket"
    /\ \E on \in BOOLEAN :
         \E f \in Faults(Len(Enable(Session(NoFault), on).S.log)) :
            LET r == Enable(Session(f), on)
            IN  Effective(f, r) /\ Returned("Enable", on, <<>>, r, NilSysinfo)

DoEnableSocket ==
    /\ calls = 0
    /\ \E on \in BOOLEAN, sockets \in SocketLists :
         \E f \in Faults(Len(EnableSocket(Session(NoFault), on, sockets).S.log)) :
            LET r == EnableSocket(Session(f), on, sockets)
            IN  Effective(f, r) /\ Returned("EnableSocket", on, sockets, r, NilSysinfo)

Next == DoGetStatus \/ DoEnable \/ DoEnableSocket

Spec == Init /\ [][Next]_vars

----------------------------------------------------------------------------
(* SpecOps: Spec with every device operation of the package.  The caller's  *)
(* first call is any operation; status reads and Enable calls may follow.   *)
(* The device is any of Devices without a meter, or a single plug with any  *)
(* of Meters.                                                               *)

InitOps ==
    /\ calls = 0 /\ last = NoCall /\ prev = Summary(NoCall)
    /\ ecalls = 0 /\ eret = NoMeterCall
    /\ \/ dev \in Devices /\ em = NoMeter
       \/ dev = [relay |-> 0, children |-> <<>>] /\ em \in Meters
    /\ CodecIdle /\ ScanIdle /\ ConnIdle

\* an operation that returns a value next to its error
ReturnedOut(op, r) ==
    /\ dev' = r.S.dev
    /\ last' = [op |-> op, on |-> FALSE, sockets |-> <<>>, before |-> dev,
                log |-> r.S.log, err |-> r.err, sys |-> NilSysinfo, panic |-> FALSE,
                out |-> r.out]
    /\ prev' = Summary(last)
    /\ calls' = calls + 1
    /\ UNCHANGED <<codecVars, scanVars, connVars, meterVars>>

DoGetTime ==
    /\ calls = 0
    /\ \E f \in Faults(1) :
         LET r == GetTime(Session(f)) IN Effective(f, r) /\ ReturnedOut("GetTime", r)

DoSetTime ==
    /\ calls = 0
    /\ \E f \in Faults(1) :
         LET r == SetTime(Session(f)) IN Effective(f, r) /\ ReturnedOut("SetTime", r)

DoSetAlias ==
    /\ calls = 0
    /\ \E f \in Faults(1) :
         LET r == SetAlias(Session(f)) IN Effective(f, r) /\ ReturnedOut("SetAlias", r)

DoFactoryReset ==
    /\ calls = 0
    /\ \E f \in Faults(1) :
         LET r == FactoryReset(Session(f)) IN Effective(f, r) /\ ReturnedOut("FactoryReset", r)

DoSetWiFi ==
    /\ calls = 0
    /\ \E f \in Faults(1) :
         LET r == SetWiFi(Session(f)) IN Effective(f, r) /\ ReturnedOut("SetWiFi", r)

DoListWiFi ==
    /\ calls = 0
    /\ \E f \in Faults(1) :
         LET r == ListWiFi(Session(f)) IN Effective(f, r) /\ ReturnedOut("ListWiFi", r)

\* a meter operation as the caller's first call
OpsMeterReturned(op, o, r) ==
    /\ em' = r.M
    /\ eret' = [op |-> op, before |-> em, outcome |-> o, err |-> r.err, meas |-> r.meas,
                sent |-> r.sent]
    /\ ecalls' = ecalls + 1
    /\ calls' = calls + 1
    /\ UNCHANGED <<dev, last, prev, codecVars, scanVars, connVars>>

OpsEMonState ==
    /\ calls = 0
    /\ \E o \in {"ok", "lost"} : OpsMeterReturned("EMonState", o, EMonState(em, o))

OpsEMonReset ==
    /\ calls = 0
    /\ \E o \in {"ok", "lost", "late"} : OpsMeterReturned("EMonReset", o, EMonReset(em, o))

NextOps ==
    \/ Next
    \/ DoGetTime \/ DoSetTime \/ DoSetAlias \/ DoFactoryReset \/ DoSetWiFi \/ DoListWiFi
    \/ OpsEMonState \/ OpsEMonReset

SpecOps == InitOps /\ [][NextOps]_vars

----------------------------------------------------------------------------
(* SpecScan: Scan's main goroutine, one worker per address, the collector  *)

InitScan ==
    /\ spc = "start"
    /\ network \in Networks
    /\ hostOf \in [ScanAddrs(network) -> HostKinds]
    /\ sn = 0
    /\ wpc = [a \in Addrs |-> "none"] /\ wsys = [a \in Addrs |-> NilSysinfo]
    /\ wopen = [a \in Addrs |-> FALSE] /\ wexch = [a \in Addrs |-> 0]
    /\ wg = 0 /\ wg0 = 0 /\ chClosed = FALSE /\ kpc = "none"
    /\ kr = [addr4 |-> <<0, 0>>, sys |-> NilSysinfo] /\ result = EmptyMap
    /\ CodecIdle /\ OpsIdle /\ ConnIdle /\ MeterIdle

\* ParseCIDR fails or the mask is not IPv4: return the empty map
ScanReject ==
    /\ spc = "start" /\ ~network.ok
    /\ spc' = "returned"
    /\ UNCHANGED <<network, hostOf, sn, wpc, wsys, wopen, wexch, wg, wg0, chClosed, kpc, kr, result>>
    /\ UNCHANGED <<codecVars, opVars, connVars, meterVars>>

\* first, last; ch := make(chan); wg0.Add(1); go collector; n := first + 1
ScanStart ==
    /\ spc = "start" /\ network.ok
    /\ wg0' = wg0 + 1
    /\ kpc' = "recv"
    /\ sn' = Incr(ScanFirst(network))
    /\ spc' = "loop"
    /\ UNCHANGED <<network, hostOf, wpc, wsys, wopen, wexch, wg, chClosed, kr, result>>
    /\ UNCHANGED <<codecVars, opVars, connVars, meterVars>>

\* n < last: target; wg.Add(1); go worker; n++
ScanSpawn ==
    /\ spc = "loop" /\ sn < ScanLast(network)
    /\ wg' = wg + 1
    /\ wpc' = [wpc EXCEPT ![sn] = "dial"]
    /\ sn' = Incr(sn)
    /\ UNCHANGED <<spc, network, hostOf, wsys, wopen, wexch, wg0, chClosed, kpc, kr, result>>
    /\ UNCHANGED <<codecVars, opVars, connVars, meterVars>>

\* !(n < last): leave the loop
ScanLoopEnd ==
    /\ spc = "loop" /\ ~(sn < ScanLast(network))
    /\ spc' = "wait"
    /\ UNCHANGED <<network, hostOf, sn, wpc, wsys, wopen, wexch, wg, wg0, chClosed, kpc, kr, result>>
    /\ UNCHANGED <<codecVars, opVars, connVars, meterVars>>

\* wg.Wait()
ScanWait ==
    /\ spc = "wait" /\ WgWaitReturns(wg)
    /\ spc' = "close"
    /\ UNCHANGED <<network, hostOf, sn, wpc, wsys, wopen, wexch, wg, wg0, chClosed, kpc, kr, result>>
    /\ UNCHANGED <<codecVars, opVars, connVars, meterVars>>

\* close(ch)
ScanClose ==
    /\ spc = "close"
    /\ chClosed' = TRUE
    /\ spc' = "wait0"
    /\ UNCHANGED <<network, hostOf, sn, wpc, wsys, wopen, wexch, wg, wg0, kpc, kr, result>>
    /\ UNCHANGED <<codecVars, opVars, connVars, meterVars>>

\* wg0.Wait(); return
ScanWait0 ==
    /\ spc = "wait0" /\ Wg0WaitReturns(wg0)
    /\ spc' = "returned"
    /\ UNCHANGED <<network, hostOf, sn, wpc, wsys, wopen, wexch, wg, wg0, chClosed, kpc, kr, result>>
    /\ UNCHANGED <<codecVars, opVars, connVars, meterVars>>

\* c, err := DialTimeout(target, timeout); if err != nil { return }
WorkerDial(a) ==
    /\ wpc[a] = "dial"
    /\ IF hostOf[a].up
       THEN wopen' = [wopen EXCEPT ![a] = TRUE] /\ wpc' = [wpc EXCEPT ![a] = "status"]
       ELSE wopen' = wopen /\ wpc' = [wpc EXCEPT ![a] = OnReturn(FALSE)]
    /\ UNCHANGED <<spc, network, hostOf, sn, wsys, wexch, wg, wg0, chClosed, kpc, kr, result>>
    /\ UNCHANGED <<codecVars, opVars, connVars, meterVars>>

\* sys, err := c.GetStatus(); if err != nil { return }
WorkerStatus(a) ==
    /\ wpc[a] = "status"
    /\ LET g == GetStatus([dev |-> hostOf[a].dev, log |-> <<>>, fault |-> hostOf[a].fault])
       IN  /\ wexch' = [wexch EXCEPT ![a] = @ + Len(g.S.log)]
           /\ IF StatusFailed(g.err)
              THEN wsys' = wsys /\ wpc' = [wpc EXCEPT ![a] = OnReturn(TRUE)]
              ELSE wsys' = [wsys EXCEPT ![a] = g.sys] /\ wpc' = [wpc EXCEPT ![a] = "send"]
    /\ UNCHANGED <<spc, network, hostOf, sn, wopen, wg, wg0, chClosed, kpc, kr, result>>
    /\ UNCHANGED <<codecVars, opVars, connVars, meterVars>>

\* ch <- ip4sysinfo{addr4: target, sys: sys} meets the collector's receive
\* (ch is unbuffered: the send completes when the collector takes the value)
WorkerSend(a) ==
    /\ wpc[a] = "send" /\ kpc = "recv" /\ ~chClosed
    /\ kr' = [addr4 |-> Target(a), sys |-> wsys[a]]
    /\ kpc' = "store"
    /\ wpc' = [wpc EXCEPT ![a] = OnReturn(TRUE)]
    /\ UNCHANGED <<spc, network, hostOf, sn, wsys, wopen, wexch, wg, wg0, chClosed, result>>
    /\ UNCHANGED <<codecVars, opVars, connVars, meterVars>>

\* defer c.Close()
WorkerClose(a) ==
    /\ wpc[a] = "closing"
    /\ wopen' = [wopen EXCEPT ![a] = FALSE]
    /\ wpc' = [wpc EXCEPT ![a] = "exit"]
    /\ UNCHANGED <<spc, network, hostOf, sn, wsys, wexch, wg, wg0, chClosed, kpc, kr, result>>
    /\ UNCHANGED <<codecVars, opVars, connVars, meterVars>>

\* defer wg.Done()
WorkerDone(a) ==
    /\ wpc[a] = "exit"
    /\ wg' = wg - 1
    /\ wpc' = [wpc EXCEPT ![a] = "done"]
    /\ UNCHANGED <<spc, network, hostOf, sn, wsys, wopen, wexch, wg0, chClosed, kpc, kr, result>>
    /\ UNCHANGED <<codecVars, opVars, connVars, meterVars>>

\* for r := range ch { result[r.addr4] = r.sys }
CollectorStore ==
    /\ kpc = "store"
    /\ result' = StoreResult(result, kr)
    /\ kpc' = "recv"
    /\ UNCHANGED <<spc, network, hostOf, sn, wpc, wsys, wopen, wexch, wg, wg0, chClosed, kr>>
    /\ UNCHANGED <<codecVars, opVars, connVars, meterVars>>

\* range ch ends on the closed channel; defer wg0.Done()
CollectorExit ==
    /\ kpc = "recv" /\ chClosed
    /\ wg0' = wg0 - 1
    /\ kpc' = "done"
    /\ UNCHANGED <<spc, network, hostOf, sn, wpc, wsys, wopen, wexch, wg, chClosed, kr, result>>
    /\ UNCHANGED <<codecVars, opVars, connVars, meterVars>>

Worker(a) == WorkerDial(a) \/ WorkerStatus(a) \/ WorkerSend(a) \/ WorkerClose(a) \/ WorkerDone(a)

NextScan ==
    \/ ScanReject \/ ScanStart \/ ScanSpawn \/ ScanLoopEnd \/ ScanWait \/ ScanClose \/ ScanWait0
    \/ \E a \in Addrs : Worker(a)
    \/ CollectorStore \/ CollectorExit

SpecScan == InitScan /\ [][NextScan]_vars

\* SpecScanFair: SpecScan where, as long as some goroutine can take a step,
\* the Go scheduler runs one, and every DialTimeout and GetStatus returns
\* (DialTimeout by its timeout, Send by its deadline).  This asks less of the
\* scheduler than fairness to every goroutine does.
\* Which device answers does not matter to termination: one device stands
\* for the answering hosts.
InitScanFair ==
    /\ InitScan
    /\ \A a \in ScanAddrs(network) : hostOf[a].dev = [relay |-> 0, children |-> <<>>]

SpecScanFair == InitScanFair /\ [][NextScan]_vars /\ WF_vars(NextScan)

----------------------------------------------------------------------------
(* SpecScanLoop: Scan's main goroutine up to the end of its loop, on every  *)
(* network of the address width: which addresses it starts a worker for.    *)
(* No worker has run yet, so wg counts the workers started.                 *)

\* every IPv4 CIDR of the address width, and a string ParseCIDR rejects
AllNetworks ==
    {[ok |-> FALSE, ip |-> 0, bits |-> 0]}
    \cup [ok : {TRUE}, ip : Addrs, bits : 0..AddrBits]

InitScanLoop ==
    /\ spc = "start"
    /\ network \in AllNetworks
    /\ hostOf = [a \in ScanAddrs(network) |->
                   [up |-> FALSE, dev |-> [relay |-> 0, children |-> <<>>], fault |-> NoFault]]
    /\ sn = 0
    /\ wpc = [a \in Addrs |-> "none"] /\ wsys = [a \in Addrs |-> NilSysinfo]
    /\ wopen = [a \in Addrs |-> FALSE] /\ wexch = [a \in Addrs |-> 0]
    /\ wg = 0 /\ wg0 = 0 /\ chClosed = FALSE /\ kpc = "none"
    /\ kr = [addr4 |-> <<0, 0>>, sys |-> NilSysinfo] /\ result = EmptyMap
    /\ CodecIdle /\ OpsIdle /\ ConnIdle /\ MeterIdle

NextScanLoop == ScanReject \/ ScanStart \/ ScanSpawn \/ ScanLoopEnd

SpecScanLoop == InitScanLoop /\ [][NextScanLoop]_vars

----------------------------------------------------------------------------
(* SpecConn: one caller making calls one after the other on one Conn: Send  *)
(* and Close as whole calls, and the arrival of reply bytes that were still *)
(* on their way when a Send returned.                                       *)

InitConn ==
    /\ cn \in ConnValues
    /\ deadline = FALSE /\ inbox = <<>> /\ inflight = <<>> /\ nsent = 0
    /\ ccalls = 0 /\ ret = NoRet
    /\ CodecIdle /\ OpsIdle /\ ScanIdle /\ MeterIdle

\* the call returned (or panicked): what the caller and the transport saw,
\* what the transport did with the call (plan), the sizes of its reads, and
\* the number of bytes the socket held when it began (stale)
ConnReturned(op, err, panic, resp, wrote, trace, plan, reads) ==
    /\ ret' = [op |-> op, before |-> cn, dlBefore |-> deadline, err |-> err, panic |-> panic,
               resp |-> resp, wrote |-> wrote, trace |-> trace,
               prevOp |-> ret.op, prevErr |-> ret.err,
               plan |-> plan, reads |-> reads, stale |-> Bytes(inbox)]
    /\ ccalls' = ccalls + 1
    /\ UNCHANGED <<codecVars, opVars, scanVars, meterVars>>

\* c.Send(cmd).  On a nil *Conn, and on a Conn whose net.Conn is nil, the first
\* c.conn.SetDeadline panics; the caller's next call comes after the bytes
\* still on their way have landed
DoSend ==
    /\ ccalls < MaxCalls /\ ~ret.panic /\ inflight = <<>>
    /\ IF cn.ptr = "nil" \/ cn.conn = "nil"
       THEN /\ ConnReturned("Send", ErrNone, TRUE, 0, 0, <<>>, NoReply, <<>>)
            /\ UNCHANGED <<cn, deadline, inbox, inflight, nsent>>
       ELSE \E plan \in SendPlans :
               LET T == [conn |-> cn.conn, deadline |-> deadline, inbox |-> inbox,
                         pending |-> <<>>, inflight |-> inflight, nsent |-> nsent,
                         trace |-> <<>>, reads |-> <<>>]
                   r == ConnSend(T, plan)
               IN  /\ cn.conn = "closed" => plan = NoReply
                   /\ deadline' = r.T.deadline
                   /\ inbox' = r.T.inbox
                   /\ inflight' = r.T.inflight
                   /\ nsent' = r.T.nsent
                   /\ ConnReturned("Send", r.err, FALSE, r.resp,
                                   IF r.T.nsent # nsent THEN r.T.nsent ELSE 0, r.T.trace,
                                   plan, r.T.reads)
                   /\ UNCHANGED cn

\* c.Close(); closing the net.Conn discards what the socket holds
DoClose ==
    /\ ccalls < MaxCalls /\ ~ret.panic
    /\ LET r == Close(cn)
       IN  /\ cn' = r.c
           /\ IF r.trace # <<>>
              THEN deadline' = FALSE /\ inbox' = <<>> /\ inflight' = <<>>
              ELSE UNCHANGED <<deadline, inbox, inflight>>
           /\ ConnReturned("Close", r.err, FALSE, 0, 0, r.trace, NoReply, <<>>)
           /\ UNCHANGED nsent

\* reply bytes that were on their way land in the socket's buffer
Arrive ==
    /\ inflight # <<>> /\ cn.conn = "open"
    /\ inbox' = inbox \o inflight
    /\ inflight' = <<>>
    /\ UNCHANGED <<cn, deadline, nsent, ccalls, ret>>
    /\ UNCHANGED <<codecVars, opVars, scanVars, meterVars>>

NextConn == DoSend \/ DoClose \/ Arrive

SpecConn == InitConn /\ [][NextConn]_vars

----------------------------------------------------------------------------
(* SpecEMeter: one caller issuing meter operations on one Conn, each action *)
(* one whole operation.                                                     *)

InitEMeter ==
    /\ em \in Meters /\ ecalls = 0 /\ eret = NoMeterCall
    /\ CodecIdle /\ OpsIdle /\ ScanIdle /\ ConnIdle

MeterReturned(op, o, r) ==
    /\ em' = r.M
    /\ eret' = [op |-> op, before |-> em, outcome |-> o, err |-> r.err, meas |-> r.meas]
    /\ ecalls' = ecalls + 1
    /\ UNCHANGED <<codecVars, opVars, scanVars, connVars>>

DoEMonState ==
    /\ ecalls < MaxCalls
    /\ \E o \in {"ok", "lost"} : MeterReturned("EMonState", o, EMonState(em, o))

DoEMonReset ==
    /\ ecalls < MaxCalls
    /\ \E o \in {"ok", "lost", "late"} : MeterReturned("EMonReset", o, EMonReset(em, o))

NextEMeter == DoEMonState \/ DoEMonReset

SpecEMeter == InitEMeter /\ [][NextEMeter]_vars

----------------------------------------------------------------------------
(* Properties of the codec, checked under SpecCodec *)

\* C1: codec round trip: for every byte sequence p, the empty one included,
\* Decode(Encode(p).Bytes()) yields exactly p.
C1_RoundTrip == cpc = "decoded" => cOut = cPlain

C1_Witness == cpc = "decoded" /\ Len(cPlain) = MaxLen /\ cPlain[1] = 123 /\ cOut = cPlain

\* C2: Encode's output is the plaintext length as a 4-byte big-endian integer
\* followed by one cipher byte per plaintext byte, cipher[0] = 171 XOR p[0] and
\* cipher[i] = cipher[i-1] XOR p[i]; for the empty plaintext it is the prefix only.
C2_EncodeFormat ==
    cpc \in {"encoded", "decoded"} =>
        /\ Len(cWire) = 4 + Len(cPlain)
        /\ \A i \in 1..4 : cWire[i] \in 0..255
        /\ ((cWire[1] * 256 + cWire[2]) * 256 + cWire[3]) * 256 + cWire[4] = Len(cPlain)
        /\ \A i \in 1..Len(cPlain) :
              cWire[4 + i] = Xor(IF i = 1 THEN 171 ELSE cWire[4 + i - 1], cPlain[i])

C2_Witness ==
    /\ cpc = "encoded" /\ Len(cPlain) = 2 /\ cPlain[1] = 123
    /\ cWire = <<0, 0, 0, 2, Xor(171, 123), Xor(Xor(171, 123), cPlain[2])>>

----------------------------------------------------------------------------
(* Properties of Scan, checked under SpecScan *)

\* the scanned addresses that accept the connection and answer the status query
Answers(a) == hostOf[a].up /\ hostOf[a].fault = NoFault
Answering == {a \in ScanAddrs(network) : Answers(a)}

\* the worker of address a has sent its pair on the channel
Emitted(a) == wpc[a] \in {"closing", "exit", "done"} /\ ~wsys[a].nil

\* C3: discovery completeness: with any set of scanned hosts accepting the
\* connection and answering the status query and all others failing, Scan
\* returns a map whose keys are exactly the answering hosts, each mapped to the
\* status that host returned, under every interleaving of the workers.
C3_DiscoveryComplete ==
    spc = "returned" =>
        /\ DOMAIN result = {Target(a) : a \in Answering}
        /\ \A a \in Answering :
              result[Target(a)] = AliasRelayState(DeviceSysinfo(hostOf[a].dev))

C3_Witness ==
    /\ spc = "returned"
    /\ \E a, b \in Answering :
          /\ a # b /\ hostOf[a].dev # hostOf[b].dev
          /\ result[Target(a)] # result[Target(b)]

\* C4: Scan returns only after every spawned worker has finished and the
\* collector has merged every emitted pair: at the moment Scan returns no worker
\* is still running and no emitted pair is missing from the returned map.
C4_ReturnsAfterAll ==
    spc = "returned" =>
        /\ \A a \in ScanAddrs(network) : wpc[a] = "done"
        /\ \A a \in Addrs : wpc[a] \in {"none", "done"}
        /\ kpc \in {"none", "done"}
        /\ \A a \in Addrs :
              Emitted(a) => /\ Target(a) \in DOMAIN result
                            /\ result[Target(a)] = wsys[a]

C4_Witness ==
    /\ spc = "returned"
    /\ \E a, b \in ScanAddrs(network) :
          /\ Emitted(a) /\ Target(a) \in DOMAIN result
          /\ wpc[b] = "done" /\ ~Emitted(b) /\ hostOf[b].up

----------------------------------------------------------------------------
(* Properties of the device operations, checked under Spec *)

\* the set_relay_state exchanges of the last operation, and its desired state
LastWrites == Writes(last.log)
LastEn == En(last.on)
StatusReads(log) == SelectSeq(log, LAMBDA e : e.cmd = "get_sysinfo")
Failed(e) == e.outcome \in {"lost", "late"}

\* the last operation's status read (its first exchange) succeeded
StatusOk == Len(last.log) >= 1 /\ last.log[1].cmd = "get_sysinfo" /\ last.log[1].outcome = "ok"

\* Enable(on) against a device without children: one status exchange first,
\* then no write if the reported state equals the desired one, else one
EnableSingleCall ==
    (last.op = "Enable" /\ Len(last.before.children) = 0) =>
        /\ Len(StatusReads(last.log)) = 1
        /\ last.log[1].cmd = "get_sysinfo"
        /\ StatusOk => Len(LastWrites) = (IF last.before.relay = LastEn THEN 0 ELSE 1)
        /\ ~StatusOk => Len(LastWrites) = 0
        /\ \A i \in 1..Len(LastWrites) : ~LastWrites[i].hasCtx /\ LastWrites[i].state = LastEn

\* the last two operations were Enable(true), Enable(true) on a childless device
TwoEnableTrue ==
    /\ last.op = "Enable" /\ last.on /\ prev.op = "Enable" /\ prev.on
    /\ prev.kids = 0

\* C5 as stated: ... hence two consecutive Enable(true) calls against a device
\* that is on issue zero writes in total, and against a device that is off at
\* most one.
C5_AsStated ==
    /\ EnableSingleCall
    /\ TwoEnableTrue =>
          /\ prev.relay = 1 => prev.writes + Len(LastWrites) = 0
          /\ prev.relay = 0 => prev.writes + Len(LastWrites) <= 1

\* C5: idempotent single-relay set: Enable(on) against a device without
\* children first performs one status exchange; if the reported relay state
\* equals the desired state it issues zero set_relay_state writes, otherwise
\* exactly one.  Two consecutive Enable(true) calls against a device that is on
\* issue zero writes in total; against a device that is off each call issues at
\* most one, and they issue at most one in total when the first call returns nil.
C5_IdempotentEnable ==
    /\ EnableSingleCall
    /\ TwoEnableTrue =>
          /\ prev.relay = 1 => prev.writes + Len(LastWrites) = 0
          /\ prev.relay = 0 =>
                /\ prev.writes <= 1 /\ Len(LastWrites) <= 1
                /\ prev.ok => prev.writes + Len(LastWrites) <= 1

C5_Witness ==
    /\ TwoEnableTrue /\ prev.relay = 0 /\ prev.ok /\ prev.writes = 1
    /\ StatusOk /\ Len(LastWrites) = 0 /\ last.err = NoErr

\* every requested index is inside [0, len(children))
InRange(i) == 0 <= i /\ i < Len(last.before.children)
AllInRange == \A k \in 1..Len(last.sockets) : InRange(last.sockets[k])

\* the requested children whose state differs from the desired one: as a set
\* of indices, and as the list of their occurrences in the request
Differs(i) == last.before.children[i + 1].state # LastEn
DifferingSet == {i \in {last.sockets[k] : k \in 1..Len(last.sockets)} : Differs(i)}
DifferingList == SelectSeq(last.sockets, Differs)

\* a write scoped to exactly the child of index i, carrying the desired state
WriteFor(e, i) ==
    /\ e.cmd = "set_relay_state" /\ e.hasCtx
    /\ e.childIds = <<last.before.children[i + 1].id>>
    /\ e.state = LastEn

\* no exchange of the last operation failed
NoFailure == \A j \in 1..Len(last.log) : last.log[j].outcome = "ok"

C7_OutOfRange ==
    (last.op = "EnableSocket" /\ ~AllInRange) =>
        /\ Len(LastWrites) = 0
        /\ dev = last.before
        /\ StatusOk => last.err.kind = "range"

C7_Witness ==
    /\ last.op = "EnableSocket" /\ Len(last.sockets) = 2
    /\ InRange(last.sockets[1]) /\ Differs(last.sockets[1])
    /\ ~InRange(last.sockets[2])
    /\ StatusOk /\ last.err.kind = "range" /\ Len(LastWrites) = 0

\* C8 as stated: an out-of-range index is detected before any network
\* activity: no exchange at all before the validation error is returned.
C8_AsStated == (last.op = "EnableSocket" /\ last.err.kind = "range") => Len(last.log) = 0

\* C8: a caller-supplied socket index that is out of range is detected after
\* the status read and before any write: EnableSocket performs exactly one
\* exchange, the get_sysinfo read, and no write, before returning the
\* validation error.
C8_ValidationAfterStatus ==
    (last.op = "EnableSocket" /\ last.err.kind = "range") =>
        /\ Len(last.log) = 1
        /\ last.log[1].cmd = "get_sysinfo" /\ last.log[1].outcome = "ok"
        /\ ~AllInRange

C8_Witness ==
    /\ last.op = "EnableSocket" /\ last.sockets = <<-1>>
    /\ last.err = RangeErr(-1, Len(last.before.children))
    /\ Len(last.log) = 1

\* the position in the log of the last operation's failed write, 0 if none
FailedWriteAt ==
    IF \E j \in 1..Len(last.log) : last.log[j].cmd = "set_relay_state" /\ Failed(last.log[j])
    THEN CHOOSE j \in 1..Len(last.log) : last.log[j].cmd = "set_relay_state" /\ Failed(last.log[j])
    ELSE 0

\* the state the device now holds for the child with this ID
StateOfChild(id) ==
    LET i == CHOOSE k \in 1..Len(dev.children) : dev.children[k].id = id
    IN  dev.children[i].state

\* C9: best-effort multi-socket writes: when the k-th per-child write of
\* EnableSocket fails, EnableSocket returns that error, issues no write for any
\* later child, and issues no compensating write to the children already
\* written, which stay in their new state.
C9_BestEffort ==
    (last.op = "EnableSocket" /\ FailedWriteAt # 0) =>
        /\ last.err = TransportErr(FailedWriteAt)
        /\ Len(last.log) = FailedWriteAt
        /\ \A j \in 2..(FailedWriteAt - 1) :
              /\ last.log[j].cmd = "set_relay_state" /\ last.log[j].outcome = "ok"
              /\ last.log[j].state = LastEn
              /\ StateOfChild(last.log[j].childIds[1]) = LastEn
        /\ \A j \in 1..Len(last.log) :
              last.log[j].cmd = "set_relay_state" => last.log[j].state = LastEn

C9_Witness ==
    /\ last.op = "EnableSocket" /\ FailedWriteAt = 3
    /\ last.log[2].childIds # last.log[3].childIds
    /\ StateOfChild(last.log[2].childIds[1]) = LastEn
    /\ StateOfChild(last.log[3].childIds[1]) # LastEn
    /\ last.err = TransportErr(3)

\* C10: status aliasing: when the device's sysinfo has a non-empty child list,
\* GetStatus returns RelayState 1 if at least one child has a non-zero state and
\* 0 otherwise, whatever relay_state the device reported; when the child list is
\* empty, GetStatus returns the reported relay_state unchanged.
C10_StatusAliasing ==
    (last.op = "GetStatus" /\ last.err = NoErr) =>
        /\ ~last.sys.nil
        /\ last.sys.children = last.before.children
        /\ last.sys.relay_state =
              IF Len(last.before.children) # 0
              THEN (IF \E i \in 1..Len(last.before.children) :
                          last.before.children[i].state # 0 THEN 1 ELSE 0)
              ELSE last.before.relay

C10_Witness ==
    /\ last.op = "GetStatus" /\ last.err = NoErr
    /\ Len(last.before.children) = 2 /\ last.before.relay = 0
    /\ last.before.children[1].state = 0 /\ last.before.children[2].state = 1
    /\ last.sys.relay_state = 1

\* the exchange of a log that was spoiled, as a fault plan
FaultOf(log) ==
    IF \E j \in 1..Len(log) : log[j].outcome # "ok"
    THEN LET j == CHOOSE k \in 1..Len(log) : log[k].outcome # "ok"
         IN  [at |-> j, kind |-> log[j].outcome]
    ELSE NoFault

\* every index of the device the last operation began on: 0..len(children)-1
AllSockets == [i \in 1..Len(last.before.children) |-> i - 1]

\* C11: Enable(on) against a device with children targets all of its sockets:
\* after its status read it does what EnableSocket(on, 0, ..., len(children)-1)
\* does (a second status read, then one scoped write per child that differs),
\* it never sends a set_relay_state without a context to such a device, and
\* when no exchange fails every child ends in the desired state.
C11_EnableAllSockets ==
    (last.op = "Enable" /\ Len(last.before.children) # 0) =>
        /\ \A j \in 1..Len(LastWrites) :
              LastWrites[j].hasCtx /\ Len(LastWrites[j].childIds) = 1
        /\ StatusOk =>
              LET d == EnableSocket([dev |-> last.before, log |-> SubSeq(last.log, 1, 1),
                                     fault |-> FaultOf(last.log)], last.on, AllSockets)
              IN  /\ last.log = d.S.log /\ last.err = d.err /\ dev = d.S.dev
                  /\ Len(last.log) >= 2 /\ last.log[2].cmd = "get_sysinfo"
        /\ (NoFailure /\ last.err = NoErr) =>
              \A i \in 1..Len(dev.children) : dev.children[i].state = LastEn

C11_Witness ==
    /\ last.op = "Enable" /\ last.on /\ last.err = NoErr
    /\ Len(last.before.children) = 2
    /\ \A i \in 1..2 : last.before.children[i].state = 0
    /\ Len(LastWrites) = 2
    /\ LastWrites[1].childIds = <<"A">> /\ LastWrites[2].childIds = <<"B">>
    /\ \A i \in 1..2 : dev.children[i].state = 1

----------------------------------------------------------------------------
(* Properties of Conn, checked under SpecConn *)

\* C12: Close is safe to repeat: Close on a nil Conn, on a never-opened Conn,
\* or on a Conn that was already closed returns ErrNotOpen and does not panic
\* or touch the transport; the first Close of an open Conn closes the
\* transport.
C12_CloseRepeatable ==
    ret.op = "Close" =>
        /\ ~ret.panic
        /\ NotOpen(ret.before) =>
              /\ ret.err = ErrNotOpen /\ ret.trace = <<>> /\ cn = ret.before
        /\ ~NotOpen(ret.before) =>
              /\ ret.before.conn = "open" /\ ret.trace = <<"Close">>
              /\ cn.conn = "closed" /\ ret.err = ErrNone

C12_Witness ==
    /\ ret.op = "Close" /\ ret.prevOp = "Close" /\ ret.prevErr = ErrNone
    /\ ret.before.conn = "closed" /\ ret.err = ErrNotOpen /\ ret.trace = <<>>

\* C13 as stated: a closed or never-opened Conn rejects further operations
\* with a distinct error: Send invoked after Close or on a Conn not produced by
\* Dial returns the not-open error instead of attempting the exchange.
C13_AsStated ==
    (ret.op = "Send" /\ NotOpen(ret.before)) =>
        /\ ~ret.panic
        /\ ret.err = ErrNotOpen
        /\ \A i \in 1..Len(ret.trace) : ret.trace[i] # "Write"

\* C14: deadline discipline: Send arms one deadline before it writes the
\* request, and on every return path after that (success, write error, read
\* error, malformed response) the deadline has been cleared, so no call on the
\* Conn starts under a deadline an earlier Send left.
C14_DeadlineDiscipline ==
    /\ ~deadline
    /\ ~ret.dlBefore
    /\ (ret.op = "Send" /\ ~ret.panic) =>
          /\ Len(ret.trace) >= 3
          /\ ret.trace[1] = "SetDeadline" /\ ret.trace[2] = "Write"
          /\ Cardinality({i \in 1..Len(ret.trace) : ret.trace[i] = "SetDeadline"}) = 1
          /\ Cardinality({i \in 1..Len(ret.trace) : ret.trace[i] = "ClearDeadline"}) = 1
          /\ ret.trace[Len(ret.trace)] = "ClearDeadline"

C14_Witness ==
    /\ ret.op = "Send" /\ ret.prevOp = "Send" /\ ret.prevErr = ErrTimeout
    /\ ret.before.conn = "open" /\ ~ret.dlBefore
    /\ ret.err = ErrMalformed /\ ~deadline

\* C15 as stated: within one Conn request and response are strictly ordered:
\* every Response a Send call returns is the device's reply to the command
\* that same call wrote, also after a Send that failed by timeout or ended its
\* read loop early.
C15_AsStated == (ret.op = "Send" /\ ret.resp # 0) => ret.resp = ret.wrote

----------------------------------------------------------------------------
(* Properties of Scan's address range, checked under SpecScanLoop *)

\* the network address and the broadcast address of a CIDR, on the integers
NetworkAddr(net) == net.ip - (net.ip % Pow2(AddrBits - net.bits))
BroadcastAddr(net) == NetworkAddr(net) + Pow2(AddrBits - net.bits) - 1

\* the addresses strictly between the two
HostRange(net) == {a \in Addrs : NetworkAddr(net) < a /\ a < BroadcastAddr(net)}

\* the addresses Scan has started a worker for
Probed == {a \in Addrs : wpc[a] # "none"}

\* C16 as stated: Scan probes, for every IPv4 CIDR, exactly the addresses
\* strictly between the network address and the broadcast address, each
\* exactly once.
C16_AsStated ==
    (spc = "wait" /\ network.ok) =>
        /\ Probed = HostRange(network)
        /\ wg = Cardinality(HostRange(network))

C16_Witness ==
    /\ spc = "wait" /\ network.ok /\ network.bits = 0
    /\ Probed = HostRange(network) /\ wg = AddrMod - 2

----------------------------------------------------------------------------
(* Further properties of Scan, checked under SpecScan *)

C18_SingleWriter ==
    /\ [](spc = "start" => kpc = "none")
    /\ [](spc = "returned" => kpc \in {"none", "done"})
    /\ [][result' # result => (kpc = "store" /\ kpc' = "recv" /\ result' = StoreResult(result, kr)
                                /\ UNCHANGED <<spc, wpc>>)]_vars

C18_Witness ==
    /\ spc = "returned" /\ kpc = "done" /\ Cardinality(DOMAIN result) = 2

\* C19: every Conn a Scan worker opens is closed by that worker after its
\* single status exchange, both when the exchange succeeds and when it fails;
\* when Scan returns no connection opened by it is still open.
C19_ConnsClosed ==
    /\ \A a \in Addrs :
          /\ wopen[a] => wpc[a] \in {"status", "send", "closing"}
          /\ wpc[a] \in {"send", "closing"} => wopen[a] /\ wexch[a] = 1
          /\ (wpc[a] \in {"exit", "done"} /\ hostOf[a].up) => ~wopen[a] /\ wexch[a] = 1
          /\ (wpc[a] \in {"exit", "done"} /\ ~hostOf[a].up) => ~wopen[a] /\ wexch[a] = 0
    /\ spc = "returned" => \A a \in Addrs : ~wopen[a]

C19_Witness ==
    /\ spc = "returned"
    /\ \E a, b \in ScanAddrs(network) :
          /\ Answers(a) /\ wexch[a] = 1 /\ ~wopen[a]
          /\ hostOf[b].up /\ ~Answers(b) /\ wexch[b] = 1 /\ ~wopen[b]

----------------------------------------------------------------------------
(* Properties of the energy meter operations, checked under SpecEMeter *)

\* the err_code the device reported in the reply to the last meter operation
LastCode == IF eret.op = "EMonState" THEN eret.before.get_err ELSE eret.before.erase_err

\* the reply reached the caller and holds the command's member under "emeter"
MemberReplied ==
    /\ eret.op \in {"EMonState", "EMonReset"}
    /\ eret.outcome = "ok" /\ eret.before.branch = "present"

\* C20: energy-meter device-reported error: when the reply to EMonState (or
\* EMonReset) has its emeter member present with a non-zero err_code, the call
\* fails with an error carrying that code, distinct from transport errors and
\* from ErrNoEMeter, and EMonState returns no measurement; with err_code 0 it
\* succeeds, EMonState returning the device's readings.
C20_DeviceReportedError ==
    MemberReplied =>
        /\ LastCode # 0 =>
              /\ eret.err = EMeterError(LastCode)
              /\ eret.err.kind \notin {"nil", "transport", "noemeter"}
              /\ eret.err # ErrNoEMeter
              /\ eret.meas.nil
              /\ em = eret.before
        /\ LastCode = 0 =>
              /\ eret.err = NoErr
              /\ eret.op = "EMonState" =>
                    /\ ~eret.meas.nil
                    /\ eret.meas.power_mw = eret.before.power_mw
                    /\ eret.meas.total_wh = eret.before.total_wh
              /\ eret.op = "EMonReset" => em.total_wh = 0

C20_Witness ==
    /\ eret.op = "EMonState" /\ eret.outcome = "ok"
    /\ eret.before.branch = "present" /\ eret.before.get_err = 1
    /\ eret.before.total_wh = MaxWH
    /\ eret.err = EMeterError(1) /\ eret.meas.nil

----------------------------------------------------------------------------
(* Properties of the whole set of device operations, checked under SpecOps *)

\* the reply to the last operation's exchange came and lacks the branch asked for
BranchAbsent == Len(last.log) = 1 /\ last.log[1].outcome = "nosys"

\* the reply to the last meter operation came without the command's member
MemberAbsent ==
    /\ eret.op \in {"EMonState", "EMonReset"}
    /\ eret.outcome = "ok" /\ eret.before.branch # "present"

\* the named errors differ from each other, from nil and from transport errors
NamedErrorsDistinct ==
    /\ Cardinality({NoSysinfoErr, ErrTimeFailed, ErrNoWiFiScan, ErrNoEMeter}) = 4
    /\ \A e \in {NoSysinfoErr, ErrTimeFailed, ErrNoWiFiScan, ErrNoEMeter} :
          e # NoErr /\ e.kind # "transport"

\* C21: semantic errors: when the exchange succeeds but the expected response
\* branch is absent, each operation returns its own named error and never
\* success: GetStatus an error for a reply lacking the system branch, GetTime
\* ErrTimeFailed together with a local timestamp, ListWiFi ErrNoWiFiScan,
\* EMonState and EMonReset ErrNoEMeter.
C21_SemanticErrors ==
    /\ NamedErrorsDistinct
    /\ (last.op = "GetStatus" /\ BranchAbsent) => (last.err = NoSysinfoErr /\ last.sys.nil)
    /\ (last.op = "GetTime" /\ BranchAbsent) => (last.err = ErrTimeFailed /\ last.out = "local")
    /\ (last.op = "ListWiFi" /\ BranchAbsent) => (last.err = ErrNoWiFiScan /\ last.out = "nil")
    /\ MemberAbsent => (eret.err = ErrNoEMeter /\ eret.meas.nil)
    /\ (last.op = "GetTime" /\ last.err = NoErr) => last.out = "device"
    /\ (last.op = "ListWiFi" /\ last.err = NoErr) => last.out = "detail"

C21_Witness ==
    /\ last.op = "GetTime" /\ BranchAbsent
    /\ last.err = ErrTimeFailed /\ last.out = "local"

\* the operations that make one exchange
SingleExchangeOps ==
    {"GetStatus", "GetTime", "SetTime", "SetAlias", "FactoryReset", "SetWiFi", "ListWiFi"}

\* no exchange follows one whose reply failed or lacked its branch
NoResend == \A j \in 1..Len(last.log) : last.log[j].outcome # "ok" => j = Len(last.log)

\* C22 as stated: every device operation (GetStatus, Enable, GetTime, SetTime,
\* SetAlias, FactoryReset, SetWiFi, ListWiFi, EMonState, EMonReset) performs at
\* most two exchanges per call, for every device topology, and never re-sends
\* a command after a failed or unsatisfying reply.
C22_AsStated ==
    /\ last.op \in (SingleExchangeOps \cup {"Enable"}) => (Len(last.log) <= 2 /\ NoResend)
    /\ eret.op \in {"EMonState", "EMonReset"} => eret.sent <= 2

\* C22: GetStatus, GetTime, SetTime, SetAlias, FactoryReset, SetWiFi, ListWiFi,
\* EMonState and EMonReset perform exactly one exchange per call.  Enable
\* performs at most two against a device without children; against a device
\* with n children it performs at most 2 + n: two status reads and at most one
\* write per child.  No operation sends anything after a failed or
\* unsatisfying reply.
C22_ExchangeBound ==
    /\ last.op \in SingleExchangeOps => Len(last.log) = 1
    /\ eret.op \in {"EMonState", "EMonReset"} => eret.sent = 1
    /\ last.op = "Enable" =>
          /\ NoResend
          /\ Len(last.before.children) = 0 => Len(last.log) <= 2
          /\ Len(StatusReads(last.log)) <= 2
          /\ Len(LastWrites) <= Len(last.before.children) + 1
          /\ Len(last.before.children) # 0 =>
                /\ Len(LastWrites) <= Len(last.before.children)
                /\ \A i, j \in 1..Len(LastWrites) :
                      LastWrites[i].childIds = LastWrites[j].childIds => i = j
    /\ last.op \in SingleExchangeOps => NoResend

C22_Witness ==
    /\ last.op = "Enable" /\ Len(last.before.children) = MaxChildren
    /\ Len(last.log) = 2 + MaxChildren /\ last.err = NoErr

----------------------------------------------------------------------------
(* Further properties of Enable and EnableSocket, checked under Spec *)

\* the last operation's status read (its first exchange) failed in transit
StatusReadFailed ==
    /\ last.op \in {"Enable", "EnableSocket"}
    /\ Len(last.log) >= 1 /\ last.log[1].cmd = "get_sysinfo" /\ Failed(last.log[1])

\* C23: a transport error in the status exchange of Enable or EnableSocket is
\* returned to the caller unchanged and the operation issues no further
\* exchange: no set_relay_state write is sent when the preceding status read
\* failed, also when it is the status read EnableSocket makes for Enable.
C23_StatusErrorSurfaced ==
    /\ StatusReadFailed =>
          /\ last.err = TransportErr(1) /\ Len(last.log) = 1 /\ dev = last.before
    /\ last.op \in {"Enable", "EnableSocket"} =>
          \A j \in 1..Len(last.log) :
              (last.log[j].cmd = "get_sysinfo" /\ Failed(last.log[j])) =>
                  /\ j = Len(last.log) /\ last.err = TransportErr(j)
                  /\ Len(LastWrites) = 0

C23_Witness ==
    /\ last.op = "Enable" /\ Len(last.before.children) = 2
    /\ Len(last.log) = 2 /\ Failed(last.log[2]) /\ last.err = TransportErr(2)

----------------------------------------------------------------------------
(* Further properties of the codec, checked under SpecCodec *)

\* the plaintexts that share their first k bytes with p, for some k >= 1
SharingPrefix(p, k) == {SubSeq(p, 1, k) \o t : t \in SeqsUpTo(ByteSample, 2)}

\* the cipher bytes of a wire buffer: what follows the 4-byte length prefix
Cipher(w) == SubSeq(w, 5, Len(w))

\* C24: codec determinism: Encode is a function of its input (encoding the
\* same plaintext again gives the same bytes), and for any two plaintexts that
\* agree on their first k bytes the cipher bytes following the 4-byte length
\* prefix agree on their first k bytes.
C24_PrefixDeterminism ==
    cpc \in {"encoded", "decoded"} =>
        /\ Encode(cPlain) = cWire
        /\ \A k \in 1..Len(cPlain) :
              \A q \in SharingPrefix(cPlain, k) :
                  SubSeq(Cipher(Encode(q)), 1, k) = SubSeq(Cipher(cWire), 1, k)

C24_Witness ==
    /\ cpc = "encoded" /\ cPlain = <<123, 34, 1>>
    /\ SubSeq(Cipher(Encode(<<123, 34, 255>>)), 1, 2) = SubSeq(Cipher(cWire), 1, 2)
    /\ Cipher(Encode(<<123, 34, 255>>)) # Cipher(cWire)

----------------------------------------------------------------------------
(* Properties of the receiving side, checked under SpecWire *)

\* C25: Decode of a buffer shorter than 4 bytes is invalid input: Decode does
\* not hand such a buffer back as a successfully decoded plaintext, it signals
\* the input as invalid.  Decode returns a buffer and nothing else, so a
\* signal is a result that no well-formed frame decodes to.
C25_AsStated ==
    (cpc = "unpacked" /\ Len(cWire) < 4) =>
        \A p \in SeqsUpTo(ByteSample, 1) : cOut # Decode(Encode(p))

\* Decode has run on a buffer of one to three bytes
C25_Witness == cpc = "unpacked" /\ Len(cWire) \in 1..3

\* C26: Conn.Read reads and decodes: after a successful Read returning n,
\* p[:n] holds the de-obfuscated form of the n bytes received from the
\* transport (decoded as a frame, or as cipher bytes from the initial key),
\* not the raw wire bytes.
C26_AsStated ==
    (cpc = "read" /\ Len(cWire) > 0) =>
        /\ cOut \in {Decode(cWire), DecodeLoop(InitialKey, cWire)}
        /\ cOut # cWire

\* Conn.Read has returned a whole frame
C26_Witness == cpc = "read" /\ cWire = Encode(<<123, 125>>)

\* C28: the declared length prefix is never checked: Decode emits one
\* plaintext byte for every input byte after the first four, whatever value
\* the prefix declares, and Send accepts a reply whose prefix disagrees with
\* the number of bytes received exactly when it accepts the same cipher bytes
\* under the right prefix.
C28_PrefixUnchecked ==
    (cpc \in {"unpacked", "accepted", "rejected"} /\ Len(cWire) >= 4) =>
        /\ Len(cOut) = Len(cWire) - 4
        /\ \A pre \in Prefixes : Decode(pre \o Cipher(cWire)) = cOut
        /\ cpc # "unpacked" =>
              (cpc = "accepted" <=>
                   UnmarshalOk(Decode(BigEndian32(Len(cWire) - 4) \o Cipher(cWire))))

\* Send has accepted a reply of two cipher bytes that declares nine
C28_Witness ==
    /\ cpc = "accepted"
    /\ SubSeq(cWire, 1, 4) = BigEndian32(9)
    /\ Len(cWire) - 4 = 2

----------------------------------------------------------------------------
(* Properties of Send's read loop, checked under SpecConn *)

\* the reads that deliver len bytes as full buffers followed by one short read
FullThenShort(len) ==
    [i \in 1..(len \div ReadSize + 1) |->
        IF i <= len \div ReadSize THEN ReadSize ELSE len % ReadSize]

\* the reply reaches the socket in pieces that each end on a buffer boundary
\* or at the end of the reply
DeliveredInFullReads(plan) ==
    \/ plan.arrive \in {"prompt", "slow"}
    \/ plan.arrive = "split" /\ plan.cut % ReadSize = 0

\* the number of Read calls a Send made
NumReads(trace) == Cardinality({i \in DOMAIN trace : trace[i] = "Read"})

\* the last Send wrote its command to a device that replies with len bytes
SentFor(len) == ret.op = "Send" /\ ~ret.panic /\ ret.wrote > 0 /\ ret.plan.len = len

\* C27: Send tolerates replies larger than a single read: it reads repeatedly
\* into a 1028-byte buffer, appends each chunk in order and stops at the first
\* read that returns fewer than 1028 bytes; for a reply of any length that is
\* not a multiple of 1028, delivered in full-buffer reads followed by one
\* short read to a Send that found the socket empty, the response returned is
\* the complete reply to the command sent.
C27_LargeReplies ==
    \A len \in ReplyLens :
        (/\ SentFor(len) /\ len % ReadSize # 0
         /\ ret.stale = 0 /\ DeliveredInFullReads(ret.plan)) =>
            /\ ret.reads = FullThenShort(len)
            /\ ret.err = ErrNone
            /\ ret.resp = ret.wrote
            /\ inbox = <<>>

\* a reply of 2500 bytes was read as 1028, 1028 and 444 bytes and returned
C27_Witness ==
    /\ SentFor(2500) /\ ret.stale = 0
    /\ ret.reads = <<ReadSize, ReadSize, 444>>
    /\ ret.err = ErrNone /\ ret.resp = ret.wrote

C30_AsStated ==
    (/\ ret.op = "Send" /\ ~ret.panic /\ ret.wrote = 1
     /\ ret.stale = 0 /\ ~ret.dlBefore
     /\ ret.plan.arrive \in {"prompt", "slow", "split"}) =>
        LET r == ConnSend(FreshTransport, [ret.plan EXCEPT !.arrive = "prompt", !.cut = 0])
        IN  ret.err = r.err /\ ret.resp = r.resp

\* the first Send of a Conn returned after a reply that came in two segments
C30_Witness ==
    /\ ret.op = "Send" /\ ret.wrote = 1 /\ ret.stale = 0
    /\ ret.plan.arrive = "split" /\ ret.plan.len = 40

----------------------------------------------------------------------------
(* Further properties of the device operations, checked under Spec *)

\* C31: GetStatus returns either a non-nil Sysinfo with a nil error or a nil
\* Sysinfo with a non-nil error, and never panics, for every well-formed JSON
\* reply, including a reply whose system branch is present but has no
\* get_sysinfo member.
C31_AsStated ==
    (last.op = "GetStatus" /\ Len(last.log) = 1 /\ ~Failed(last.log[1])) =>
        /\ ~last.panic
        /\ \/ ~last.sys.nil /\ last.err = NoErr
           \/ last.sys.nil /\ last.err \notin {NoErr, NilDeref}

\* GetStatus has read a reply that holds system without get_sysinfo
C31_Witness ==
    /\ last.op = "GetStatus" /\ Len(last.log) = 1
    /\ last.log[1].outcome = "nomember"

\* the writes of the last operation that name the child of index i
WritesTo(i) ==
    {j \in 1..Len(LastWrites) : last.before.children[i + 1].id \in
                                   {LastWrites[j].childIds[k] : k \in 1..Len(LastWrites[j].childIds)}}

\* C32: passing the same in-range index more than once to EnableSocket does
\* not cause more than one set_relay_state write to that child: when no
\* exchange fails, the number of writes equals the number of distinct
\* requested children whose state differs from the desired state.
C32_AsStated ==
    (last.op = "EnableSocket" /\ AllInRange /\ NoFailure) =>
        /\ \A k \in 1..Len(last.sockets) : Cardinality(WritesTo(last.sockets[k])) <= 1
        /\ Len(LastWrites) = Cardinality(DifferingSet)

\* EnableSocket was handed one index twice, for a child whose state differs
C32_Witness ==
    /\ last.op = "EnableSocket" /\ NoFailure
    /\ Len(last.sockets) = 2 /\ last.sockets[1] = last.sockets[2]
    /\ InRange(last.sockets[1]) /\ Differs(last.sockets[1])

RECURSIVE DeviceAfter(_, _)
\* the device after the exchanges of a log that reached it
DeviceAfter(d, log) ==
    IF log = <<>> THEN d
    ELSE DeviceAfter(IF Head(log).outcome = "lost" THEN d ELSE DeviceApply(d, Head(log)),
                     Tail(log))

\* the index of the child with this ID on the device the last operation began on
IndexOf(id) ==
    (CHOOSE k \in 1..Len(last.before.children) : last.before.children[k].id = id) - 1

\* C33: EnableSocket's writes are confined to what was asked: every
\* set_relay_state it sends has a context, the context names only children
\* whose index was in the requested list, and the state of each named child,
\* when the write is sent, differs from the desired state.
C33_AsStated ==
    last.op = "EnableSocket" =>
        \A j \in 1..Len(last.log) :
            last.log[j].cmd = "set_relay_state" =>
                /\ last.log[j].hasCtx
                /\ \A n \in 1..Len(last.log[j].childIds) :
                      LET i   == IndexOf(last.log[j].childIds[n])
                          now == DeviceAfter(last.before, SubSeq(last.log, 1, j - 1))
                      IN  /\ \E k \in 1..Len(last.sockets) : last.sockets[k] = i
                          /\ now.children[i + 1].state # LastEn

\* EnableSocket has sent a second write to a child it had already set
C33_Witness ==
    /\ last.op = "EnableSocket" /\ Len(LastWrites) = 2
    /\ LastWrites[1].childIds = LastWrites[2].childIds
    /\ ~Failed(LastWrites[1])

\* C34: convergence: when Enable(on) returns nil against a device that applies
\* every acknowledged set_relay_state and whose state nobody else changes, a
\* GetStatus issued next that returns a Sysinfo reports RelayState equal to
\* the requested value, for single-relay devices and for power strips with
\* any initial child states.
C34_Convergence ==
    (last.op = "GetStatus" /\ last.err = NoErr /\ prev.op = "Enable" /\ prev.ok) =>
        /\ ~last.sys.nil
        /\ last.sys.relay_state = En(prev.on)
        /\ \A i \in 1..Len(last.sys.children) : last.sys.children[i].state = En(prev.on)

\* Enable(true) wrote to a strip whose children were not all on, and the
\* status read after it reports 1
C34_Witness ==
    /\ last.op = "GetStatus" /\ last.err = NoErr
    /\ prev.op = "Enable" /\ prev.ok /\ prev.on /\ prev.kids = 2 /\ prev.writes >= 1
    /\ last.sys.relay_state = 1

----------------------------------------------------------------------------
(* Properties of Scan's channel and of its termination *)

\* C35: in Scan the result channel is closed exactly once and only after
\* every worker has returned: under no interleaving does a worker send on the
\* closed channel (none is at its send, or before it, once the channel is
\* closed), and every value a worker sends is received and stored by the
\* collector before the collector exits.
C35_ChannelDiscipline ==
    /\ [][chClosed' # chClosed =>
            /\ ~chClosed /\ chClosed'
            /\ \A a \in ScanAddrs(network) : wpc[a] = "done"]_vars
    /\ [](chClosed => \A a \in Addrs : wpc[a] \in {"none", "done"})
    /\ [](kpc = "done" =>
            /\ chClosed
            /\ \A a \in Addrs : Emitted(a) => /\ Target(a) \in DOMAIN result
                                              /\ result[Target(a)] = wsys[a])

\* the channel is closed after two workers' values were stored, and the
\* collector has not yet seen the close
C35_Witness ==
    /\ chClosed /\ spc = "wait0" /\ kpc = "recv"
    /\ Cardinality({a \in Addrs : Emitted(a)}) = 2
    /\ Cardinality(DOMAIN result) = 2

\* C36: Scan terminates without deadlock: when every connect and every status
\* exchange returns, every worker that reaches its send on the unbuffered
\* channel finishes it and returns, the collector exits, and Scan returns,
\* for any number of hosts and of simultaneously answering hosts.
C36_Terminates ==
    <>[](/\ spc = "returned"
         /\ \A a \in ScanAddrs(network) : wpc[a] = "done"
         /\ \A a \in Addrs : wpc[a] \in {"none", "done"}
         /\ kpc \in {"none", "done"}
         /\ network.ok => kpc = "done")

\* two workers wait at their send on the channel at the same time
C36_Witness ==
    \E a, b \in Addrs : a # b /\ wpc[a] = "send" /\ wpc[b] = "send" /\ kpc = "recv"

----------------------------------------------------------------------------
(* A further property of Scan's loop, checked under SpecScanLoop *)

\* C37: for a network with no interior host address (prefix length /31 or
\* /32, at every base address including 255.255.255.254/31 and
\* 255.255.255.255/32), Scan makes no connection attempt: it starts no worker.
C37_AsStated ==
    (spc = "wait" /\ network.ok /\ network.bits >= AddrBits - 1) =>
        /\ Probed = {}
        /\ wg = 0

\* Scan's loop has ended on the /31 at the highest base address
C37_Witness ==
    /\ spc = "wait" /\ network.ok
    /\ network.bits = AddrBits - 1 /\ network.ip = AddrMod - 2
    /\ Probed = {}

====
